---------------------------- MODULE Spec2Model ----------------------------
(***************************************************************************)
(* A model of the core of sg-3d-export (backend/services and the request   *)
(* handlers of backend/main.py that call into it):                         *)
(*   - the binary mesh codec of BuildingIndex and STLProcessor,            *)
(*   - preview decimation,                                                 *)
(*   - the decoder of BuildingIndex (binary and text) and its merge,       *)
(*   - the BuildingIndex catalog (build_index, ensure_indexed, queries),   *)
(*   - the STLProcessor mesh cache (load_mesh, clip_*, handlers),          *)
(*   - the coordinate transforms and the export job of main.py,            *)
(*   - the first use of both by concurrent requests.                       *)
(*                                                                         *)
(* Numbers.  Coordinates are the real numbers the code holds; the model    *)
(* draws them from multiples of 6, so that the mean of three vertices      *)
(* (np.mean, a division by 3) and a product with a fraction k/2 are exact  *)
(* integers, and every comparison is the comparison the code makes.        *)
(* np.mean works in float32, the type of mesh.vectors: each sum and the    *)
(* quotient are rounded to the nearest float32 (Mean32).  On the small     *)
(* coordinates nothing is rounded; on the coordinates of the wall meshes   *)
(* (beyond 2^23, where float32 holds integers only) the rounding shows.    *)
(* A float32 written by struct.pack('<f') is the four bytes of its         *)
(* IEEE-754 encoding (PackF).  The coordinate transforms are computed on  *)
(* exact rationals.                                                        *)
(***************************************************************************)
EXTENDS Integers, Sequences, FiniteSets, TLC

VARIABLES
  op,             \* the last operation that returned, "none" at start
  \* ---- codec and preview: the arguments and results of one call
  triangles,      \* the argument: a sequence of <<normal, vertices>>
  max_triangles,  \* the argument max_triangles
  stl_bytes,      \* the bytes an encoder returned
  preview,        \* the dict a preview operation returned
  \* ---- decoding and merge: the arguments and results of one call
  written,        \* the triangles a binary stream was encoded from
  blocks,         \* the facet blocks a text stream was written from
  stream,         \* the bytes of the file given to _read_stl_triangles
  decoded,        \* what _read_stl_triangles did: [raised, tris]
  selection,      \* the buildings given to merge_buildings_to_stl
  merged,         \* the bytes merge_buildings_to_stl returned
  \* ---- BuildingIndex and its files
  csvExists,      \* csv_path.exists()
  dirExists,      \* buildings_dir.exists()
  csvRows,        \* the rows csv.DictReader yields, in file order
  stlFiles,       \* way_code -> NoFile or File(bytes of <way_code>.stl)
  buildings,      \* BuildingIndex.buildings
  indexed,        \* BuildingIndex._indexed
  ensureCalls,    \* how many times ensure_indexed has been called
  buildCalls,     \* how many times build_index has been entered
  buildRet,       \* None, or Some(what the last finished build_index returned)
  found,          \* the buildings the last find_buildings_* returned
  stats,          \* the dict the last get_stats returned
  query,          \* the arguments of the last query
  \* ---- STLProcessor, its file, and the responses of its handlers
  stlFile,        \* NoFile or File(vectors held by the file at stl_path)
  mesh,           \* STLProcessor._mesh: None or Some(its vectors)
  bounds,         \* STLProcessor._bounds: None or Some(the dict)
  loadCalls,      \* how many times Mesh.from_file has read the file
  response,       \* what the last handler or operation returned
  answers,        \* the answers without geometry given so far, each with
                  \* its cause
  clipArgs,       \* None, or Some(the arguments of the last clip_by_*)
  job,            \* the export job: its district, status and clip attempts
  export_jobs,    \* main.export_jobs: the ExportJobStatus of each job, the
                  \* job_id being the position
  tasks,          \* for each job, where its background task stands
  \* ---- the coordinate transforms: the argument and result of one call
  point,          \* None, or Some(<<a, b>>): (lat, lng) in thousandths of a
                  \* degree, or local (x, y)
  image,          \* None, or Some(<<a, b>>): what the transforms made of it
  \* ---- concurrent first use: one record per request
  pc,             \* request -> its position
  cursor          \* request -> the csv row its build_index loop is at

readVars  == <<written, blocks, stream, decoded, selection, merged>>
codecVars == <<triangles, max_triangles, stl_bytes, preview, readVars>>
indexVars == <<csvExists, dirExists, csvRows, stlFiles, buildings, indexed,
               ensureCalls, buildCalls, buildRet, found, stats, query>>
procVars  == <<stlFile, mesh, bounds, loadCalls, response, answers>>
geoVars   == <<point, image>>
exportVars == <<export_jobs, tasks>>
jobVars   == <<clipArgs, job, geoVars, exportVars>>
concVars  == <<pc, cursor>>
vars == <<op, codecVars, indexVars, procVars, jobVars, concVars>>

\* Optional values: Python's None is the empty tuple and a value x that may
\* also be None is held as <<x>>
None    == <<>>
Some(x) == <<x>>
Val(o)  == o[1]
\* A path: NoFile when nothing exists there, else File(what it holds)
NoFile     == <<>>
File(c)    == <<c>>
Content(f) == f[1]

(***************************************************************************)
(* Bounds of the model.                                                    *)
(***************************************************************************)
MaxTris == 3          \* longest triangle sequence given to the codec
MaxK    == 2          \* largest max_triangles tried
MaxRows == 3          \* longest catalog file
MaxCalls == 2         \* cap of the call counters ensureCalls, loadCalls
MaxRequests == 2      \* concurrent requests
MaxMesh == 2          \* most triangles in the file at stl_path
MaxFragment == 2      \* most triangles in a binary stream given to the decoder
MaxBlocks == 2        \* most facet blocks in a text given to the decoder
MaxSelected == 2      \* most buildings given to a merge
MaxPreview == 4       \* most triangles in a mesh given to mesh_to_json
MaxJobs == 2          \* most export jobs started

(***************************************************************************)
(* Vectors and triangles.                                                  *)
(***************************************************************************)
Vec(x, y, z) == <<x, y, z>>
VSub(a, b)   == <<a[1] - b[1], a[2] - b[2], a[3] - b[3]>>
\* np.cross
Cross(a, b)  == <<a[2] * b[3] - a[3] * b[2],
                  a[3] * b[1] - a[1] * b[3],
                  a[1] * b[2] - a[2] * b[1]>>
\* np.linalg.norm; the model's triangles have cross products along one axis,
\* whose norm is an integer
Norm(v) ==
  LET s == v[1] * v[1] + v[2] * v[2] + v[3] * v[3]
  IN  CHOOSE r \in 0..s : r * r = s
VDiv(v, d) == <<v[1] \div d, v[2] \div d, v[3] \div d>>

\* a triangle as BuildingIndex holds it: (normal, vertices)
Tri(n, v1, v2, v3) == <<n, <<v1, v2, v3>>>>
TA == Tri(Vec(0, 0, 1),  Vec(0, 0, 0),    Vec(6, 0, 0),  Vec(0, 6, 0))
TB == Tri(Vec(0, 0, -1), Vec(12, 12, 0),  Vec(12, 6, 0), Vec(6, 12, 0))
TC == Tri(Vec(0, 0, 0),  Vec(6, 6, 6),    Vec(6, 6, 6),  Vec(6, 6, 6))
TriUniverse == {TA, TB, TC}
\* a wall in the plane x = 12582914 (2^23 + 2^22 + 2, a float32), and a
\* floor triangle that reaches it
TW == Tri(Vec(1, 0, 0),  Vec(12582914, 0, 0), Vec(12582914, 6, 0),
          Vec(12582914, 0, 6))
TF == Tri(Vec(0, 0, 1),  Vec(0, 0, 0),    Vec(12582914, 0, 0),
          Vec(12582914, 6, 0))

SeqsUpTo(S, n) == UNION {[1..k -> S] : k \in 0..n}

\* m.vectors of a numpy-stl mesh made from such triangles
Vectors(tris) == [i \in 1..Len(tris) |-> tris[i][2]]

(***************************************************************************)
(* struct.pack                                                             *)
(***************************************************************************)
Zeros(n) == [i \in 1..n |-> 0]

\* struct.pack('<f', x): the IEEE-754 single of x, least significant byte first
PackF(x) ==
  CASE x = 0  -> <<0, 0, 0, 0>>
    [] x = 1  -> <<0, 0, 128, 63>>
    [] x = -1 -> <<0, 0, 128, 191>>
    [] x = 6  -> <<0, 0, 192, 64>>
    [] x = 12 -> <<0, 0, 64, 65>>

\* struct.pack('<3f', *v)
Pack3F(v) == PackF(v[1]) \o PackF(v[2]) \o PackF(v[3])

\* struct.pack('<I', n)
PackI(n) == <<n % 256, (n \div 256) % 256, (n \div 65536) % 256,
              (n \div 16777216) % 256>>

\* struct.pack('<H', n)
PackH(n) == <<n % 256, (n \div 256) % 256>>

\* the concatenation of the sequences of a sequence
RECURSIVE Flatten(_)
Flatten(ss) == IF ss = <<>> THEN <<>> ELSE Head(ss) \o Flatten(Tail(ss))

(***************************************************************************)
(* BuildingIndex._write_binary_stl                                         *)
(***************************************************************************)
\* b'Binary STL - SG Buildings Export'
IndexHeaderText ==
  <<66, 105, 110, 97, 114, 121, 32, 83, 84, 76, 32, 45, 32, 83, 71, 32,
    66, 117, 105, 108, 100, 105, 110, 103, 115, 32, 69, 120, 112, 111,
    114, 116>>

\* header + b'\0' * (80 - len(header))
IndexHeader == IndexHeaderText \o Zeros(80 - Len(IndexHeaderText))

\* one pass of the loop: normal, the three vertices, the attribute count
IndexRecord(t) ==
  Pack3F(t[1]) \o Pack3F(t[2][1]) \o Pack3F(t[2][2]) \o Pack3F(t[2][3])
    \o PackH(0)

WriteBinaryStl(tris) ==
  IndexHeader \o PackI(Len(tris))
    \o Flatten([i \in 1..Len(tris) |-> IndexRecord(tris[i])])

(***************************************************************************)
(* STLProcessor.mesh_to_binary_stl                                         *)
(***************************************************************************)
\* b'Binary STL exported from SG 3D Export'
ProcHeaderText ==
  <<66, 105, 110, 97, 114, 121, 32, 83, 84, 76, 32, 101, 120, 112, 111,
    114, 116, 101, 100, 32, 102, 114, 111, 109, 32, 83, 71, 32, 51, 68,
    32, 69, 120, 112, 111, 114, 116>>

\* b'Binary STL exported from SG 3D Export' + b'\0' * (80 - 38)
ProcHeader == ProcHeaderText \o Zeros(80 - 38)

\* the normal the loop computes: cross(v1 - v0, v2 - v0), divided by its norm
\* when the norm is positive
FaceNormal(v) ==
  LET normal == Cross(VSub(v[2], v[1]), VSub(v[3], v[1]))
      norm   == Norm(normal)
  IN  IF norm > 0 THEN VDiv(normal, norm) ELSE normal

ProcRecord(v) ==
  Pack3F(FaceNormal(v)) \o Pack3F(v[1]) \o Pack3F(v[2]) \o Pack3F(v[3])
    \o PackH(0)

\* m is None (no mesh, and none loaded) or Some(the vectors of the mesh)
MeshToBinaryStl(m) ==
  IF m = None THEN <<>>
  ELSE LET vectors == Val(m)
       IN  ProcHeader \o PackI(Len(vectors))
             \o Flatten([i \in 1..Len(vectors) |-> ProcRecord(vectors[i])])

(***************************************************************************)
(* Preview decimation: STLProcessor.mesh_to_json and                       *)
(* BuildingIndex.get_buildings_preview_data                                *)
(***************************************************************************)
\* Stride that starts at the last item of the first group: step-1, 2*step-1, ...
StrideFromGroupEnd(s, step) ==
  [j \in 1..(Len(s) \div step) |-> s[j * step]]

\* s[::step]: the items at 0, step, 2*step, ... (Python indices)
Stride(s, step) ==
  [j \in 1..((Len(s) + step - 1) \div step) |-> s[(j - 1) * step + 1]]

\* if len(t) > max_triangles: step = len(t) // max_triangles; t = t[::step]
Decimate(t, k) == IF Len(t) > k THEN Stride(t, Len(t) \div k) ELSE t

\* rows.flatten(): the numbers of a sequence of vectors, one after the other
Flat(rows) ==
  [j \in 1..(3 * Len(rows)) |-> rows[(j - 1) \div 3 + 1][((j - 1) % 3) + 1]]

\* triangles.reshape(-1, 3): the vertices of a sequence of vertex triples
Reshape3(points) ==
  [i \in 1..(3 * Len(points)) |->
     points[(i - 1) \div 3 + 1][((i - 1) % 3) + 1]]

\* np.tile(normals, (3, 1)): the whole sequence three times over
Tile3(normals) ==
  [i \in 1..(3 * Len(normals)) |-> normals[((i - 1) % Len(normals)) + 1]]

\* np.repeat(normals, 3, axis=0), and the inner loop over the three vertices
\* that extends normals once for each
Repeat3(normals) ==
  [i \in 1..(3 * Len(normals)) |-> normals[(i - 1) \div 3 + 1]]

\* the sum of the coordinates of rows on one axis
RECURSIVE AxisSum(_, _)
AxisSum(rows, axis) ==
  IF rows = <<>> THEN 0 ELSE Head(rows)[axis] + AxisSum(Tail(rows), axis)

Magnitude(x) == IF x < 0 THEN -x ELSE x
Largest(S) == CHOOSE m \in S : \A x \in S : x <= m

\* count * (v - center), for center = sums / count: an integer
Offsets(rows, sums) ==
  [i \in 1..Len(rows) |->
     [axis \in 1..3 |-> Len(rows) * rows[i][axis] - sums[axis]]]

\* count * max_extent, for max_extent = np.max(np.abs(vertices - center))
Extent(offsets) ==
  Largest({Magnitude(offsets[i][axis]) : i \in DOMAIN offsets, axis \in 1..3})

\* vertices / max_extent * 0.8 when max_extent > 0, else vertices; a number
\* is the fraction <<numerator, denominator>>, not reduced
ScaleToFit(offsets, extent, count) ==
  [i \in 1..Len(offsets) |->
     [axis \in 1..3 |->
        IF extent > 0 THEN <<4 * offsets[i][axis], 5 * extent>>
        ELSE <<offsets[i][axis], count>>]]

\* the second half of both preview functions, from the vertex rows and the
\* per-vertex normals of the kept triangles (at least one): center, scale
\* and the two flat buffers
Buffers(rows, normals, sums, offsets, extent) ==
  [vertices |-> Flat(ScaleToFit(offsets, extent, Len(rows))),
   normals |-> Flat(normals),
   center |-> [axis \in 1..3 |-> <<sums[axis], Len(rows)>>],
   scale |-> IF extent > 0 THEN <<extent, Len(rows)>> ELSE <<1, 1>>]

AxisSums(rows) == [axis \in 1..3 |-> AxisSum(rows, axis)]

\* the buffers, the offsets from the center being known
BuffersOf(rows, normals, sums, offsets) ==
  Buffers(rows, normals, sums, offsets, Extent(offsets))

\* the buffers, the sums of the coordinates being known
BuffersAbout(rows, normals, sums) ==
  BuffersOf(rows, normals, sums, Offsets(rows, sums))

PreviewBuffers(rows, normals) == BuffersAbout(rows, normals, AxisSums(rows))

\* the dict made of the kept triangles, their buffers b and the count of the
\* mesh; tris is the kept triangles
MeshPreview(kept, b, original) ==
  [tris |-> kept,
   vertices |-> b.vertices,
   normals |-> b.normals,
   triangleCount |-> Len(kept),
   originalTriangles |-> original,
   center |-> b.center,
   scale |-> b.scale]

\* from "Flatten vertices" on
PreviewOfMesh(kept, original) ==
  MeshPreview(kept,
              PreviewBuffers(Reshape3(kept),
                             Repeat3([i \in 1..Len(kept) |-> FaceNormal(kept[i])])),
              original)

\* mesh_to_json from "Simplify if too many triangles" on, for the vectors t
\* of the mesh
JsonOfVectors(t, simplify, k) ==
  PreviewOfMesh(IF simplify THEN Decimate(t, k) ELSE t, Len(t))

\* the vectors the clips of the meshes tried can return
ClippedVectors == SeqsUpTo({x[2] : x \in TriUniverse}, MaxMesh) \ {<<>>}

\* JsonOfVectors of ClippedVectors, simplified, worked out once
SimplifiedJsons ==
  [t \in ClippedVectors |-> [k \in 1..MaxK |-> JsonOfVectors(t, TRUE, k)]]

\* mesh_to_json(target_mesh, simplify, max_triangles) on a mesh of at least
\* one triangle
MeshToJson(m, simplify, k) ==
  IF m = None THEN [error |-> "No mesh loaded"]
  ELSE IF simplify /\ k \in 1..MaxK /\ Val(m) \in ClippedVectors
    THEN SimplifiedJsons[Val(m)][k]
  ELSE JsonOfVectors(Val(m), simplify, k)

(***************************************************************************)
(* BuildingIndex._read_stl_triangles, binary form.  What a read gives is   *)
(* [raised, tris]: whether an exception left the function, and the list    *)
(* returned when none did.                                                 *)
(***************************************************************************)
\* the float32 values the model's meshes are made of
Floats == {0, 1, -1, 6, 12}

\* struct.unpack('<f', b): the value whose IEEE-754 single is b
UnpackF(b) == CHOOSE x \in Floats : PackF(x) = b

\* struct.unpack('<3f', b)
Unpack3F(b) ==
  <<UnpackF(SubSeq(b, 1, 4)), UnpackF(SubSeq(b, 5, 8)),
    UnpackF(SubSeq(b, 9, 12))>>

\* struct.unpack('<I', b)
UnpackI(b) == b[1] + 256 * b[2] + 65536 * b[3] + 16777216 * b[4]

\* f.seek(pos); f.read(n): the n bytes after the first pos, or those there are
ReadAt(b, pos, n) ==
  IF pos >= Len(b) THEN <<>>
  ELSE SubSeq(b, pos + 1, IF pos + n <= Len(b) THEN pos + n ELSE Len(b))

Returned(tris) == [raised |-> FALSE, tris |-> tris]
Raised == [raised |-> TRUE, tris |-> <<>>]

\* DecodeRecord with the normal taken from data[36:48] and the vertices from
\* data[0:36]
DecodeRecordNormalLast(data) ==
  Tri(Unpack3F(SubSeq(data, 37, 48)), Unpack3F(SubSeq(data, 1, 12)),
      Unpack3F(SubSeq(data, 13, 24)), Unpack3F(SubSeq(data, 25, 36)))

\* the triangle of one 50-byte record: data[0:12], [12:24], [24:36], [36:48]
DecodeRecord(data) ==
  Tri(Unpack3F(SubSeq(data, 1, 12)), Unpack3F(SubSeq(data, 13, 24)),
      Unpack3F(SubSeq(data, 25, 36)), Unpack3F(SubSeq(data, 37, 48)))

\* for _ in range(num_triangles): data = f.read(50); if len(data) < 50: break
RECURSIVE ReadRecords(_, _, _)
ReadRecords(b, pos, left) ==
  IF left = 0 THEN <<>>
  ELSE LET data == ReadAt(b, pos, 50)
       IN  IF Len(data) < 50 THEN <<>>
           ELSE <<DecodeRecord(data)>> \o ReadRecords(b, pos + 50, left - 1)

\* f.seek(80); num_triangles = struct.unpack('<I', f.read(4))[0]; the loop.
\* struct.unpack raises struct.error on a buffer that is not 4 bytes long
ReadBinaryStl(b) ==
  LET count == ReadAt(b, 80, 4)
  IN  IF Len(count) # 4 THEN Raised
      ELSE Returned(ReadRecords(b, 84, UnpackI(count)))

(***************************************************************************)
(* BuildingIndex._read_stl_triangles, textual form, and _parse_ascii_stl.  *)
(* A text is the bytes of the file; a word is a maximal run of bytes that  *)
(* are not white space.  The pattern of _parse_ascii_stl separates its     *)
(* parts by \s+, so it is matched on the words.                            *)
(***************************************************************************)
\* b'solid'
SolidBytes == <<115, 111, 108, 105, 100>>
\* 'facet normal'
FacetNormalBytes == <<102, 97, 99, 101, 116, 32, 110, 111, 114, 109, 97, 108>>
KwFacet    == <<102, 97, 99, 101, 116>>
KwNormal   == <<110, 111, 114, 109, 97, 108>>
KwOuter    == <<111, 117, 116, 101, 114>>
KwLoop     == <<108, 111, 111, 112>>
KwVertex   == <<118, 101, 114, 116, 101, 120>>
KwEndloop  == <<101, 110, 100, 108, 111, 111, 112>>
KwEndfacet == <<101, 110, 100, 102, 97, 99, 101, 116>>
KwEndsolid == <<101, 110, 100, 115, 111, 108, 105, 100>>

\* \s: space, \t, \n, \v, \f, \r
WhiteSpace == {32, 9, 10, 11, 12, 13}

\* the characters of [-\d.eE+]
NumberChars == {45, 46, 69, 101, 43} \cup (48..57)

\* the positions where a word starts, and where the word started at i ends
WordStarts(b) ==
  {i \in 1..Len(b) : b[i] \notin WhiteSpace /\ (i = 1 \/ b[i - 1] \in WhiteSpace)}
WordEnd(b, i) ==
  CHOOSE j \in i..Len(b) :
    /\ \A k \in i..j : b[k] \notin WhiteSpace
    /\ j = Len(b) \/ b[j + 1] \in WhiteSpace

\* the words of a text, left to right
Words(b) ==
  LET starts == WordStarts(b)
      nth(k) == CHOOSE i \in starts : Cardinality({j \in starts : j < i}) = k - 1
  IN  [k \in 1..Cardinality(starts) |-> SubSeq(b, nth(k), WordEnd(b, nth(k)))]

\* re.IGNORECASE on a keyword
Lower(w) == [i \in 1..Len(w) |-> IF w[i] \in 65..90 THEN w[i] + 32 ELSE w[i]]

\* the word matches [-\d.eE+]+
IsNumberWord(w) == Len(w) >= 1 /\ \A i \in 1..Len(w) : w[i] \in NumberChars

\* float(text) on the number words of the model's texts: Some(the value), or
\* None where float raises ValueError ('1.2.3' and '-')
ParseFloat(w) ==
  CASE w = <<48>>  -> Some(0)
    [] w = <<49>>  -> Some(1)
    [] w = <<45, 49>> -> Some(-1)
    [] w = <<54>>  -> Some(6)
    [] w = <<49, 50>> -> Some(12)
    [] w = <<49, 46, 50, 46, 51>> -> None
    [] w = <<45>> -> None

\* the word offsets, in a facet block, of the keywords and of the numbers
FacetKeywords ==
  <<<<0, KwFacet>>, <<1, KwNormal>>, <<5, KwOuter>>, <<6, KwLoop>>,
    <<7, KwVertex>>, <<11, KwVertex>>, <<15, KwVertex>>,
    <<19, KwEndloop>>, <<20, KwEndfacet>>>>
FacetNumbers == <<2, 3, 4, 8, 9, 10, 12, 13, 14, 16, 17, 18>>
FacetWords == 21

\* facet_pattern matches the words from the i-th on
MatchesFacet(ws, i) ==
  /\ i + FacetWords - 1 <= Len(ws)
  /\ \A k \in DOMAIN FacetKeywords :
       Lower(ws[i + FacetKeywords[k][1]]) = FacetKeywords[k][2]
  /\ \A k \in DOMAIN FacetNumbers : IsNumberWord(ws[i + FacetNumbers[k]])

\* facet_pattern.finditer: the groups of the matches, left to right, a
\* search resuming after the end of a match
RECURSIVE FindFacets(_, _)
FindFacets(ws, i) ==
  IF i > Len(ws) THEN <<>>
  ELSE IF MatchesFacet(ws, i)
    THEN <<[k \in DOMAIN FacetNumbers |-> ws[i + FacetNumbers[k]]]>>
           \o FindFacets(ws, i + FacetWords)
  ELSE FindFacets(ws, i + 1)

\* the body of the loop over the matches: twelve float(match.group(k))
FacetRaises(g) == \E k \in DOMAIN g : ParseFloat(g[k]) = None
FacetTriangle(g) ==
  LET x(k) == Val(ParseFloat(g[k]))
  IN  Tri(Vec(x(1), x(2), x(3)), Vec(x(4), x(5), x(6)),
          Vec(x(7), x(8), x(9)), Vec(x(10), x(11), x(12)))

\* _parse_ascii_stl(content)
ParseAsciiStl(content) ==
  LET groups == FindFacets(Words(content), 1)
  IN  IF \E m \in DOMAIN groups : FacetRaises(groups[m]) THEN Raised
      ELSE Returned([m \in DOMAIN groups |-> FacetTriangle(groups[m])])

\* 'facet normal' in content
Contains(b, pat) ==
  \E i \in 0..(Len(b) - Len(pat)) : SubSeq(b, i + 1, i + Len(pat)) = pat

\* _read_stl_triangles on the bytes of an open file
ReadStlTriangles(b) ==
  IF ReadAt(b, 0, 5) = SolidBytes /\ Contains(b, FacetNormalBytes)
    THEN ParseAsciiStl(b)
    ELSE ReadBinaryStl(b)

(***************************************************************************)
(* The streams given to the decoder: what _write_binary_stl wrote, cut at  *)
(* a length, and texts of facet blocks, well formed or not.                *)
(***************************************************************************)
\* lengths around the header, the count and the ends of the records
Cuts == {0, 5, 79, 80, 83, 84, 85, 133, 134, 135, 183, 184}

\* the first n bytes of b
Prefix(b, n) == SubSeq(b, 1, IF n <= Len(b) THEN n ELSE Len(b))

\* the text of a number of Floats
NumberText(x) ==
  CASE x = 0  -> <<48>>
    [] x = 1  -> <<49>>
    [] x = -1 -> <<45, 49>>
    [] x = 6  -> <<54>>
    [] x = 12 -> <<49, 50>>

VecWords(v) == <<NumberText(v[1]), NumberText(v[2]), NumberText(v[3])>>

\* the 21 words of the facet block of a triangle
FacetBlock(t) ==
  <<KwFacet, KwNormal>> \o VecWords(t[1]) \o <<KwOuter, KwLoop>>
    \o <<KwVertex>> \o VecWords(t[2][1])
    \o <<KwVertex>> \o VecWords(t[2][2])
    \o <<KwVertex>> \o VecWords(t[2][3])
    \o <<KwEndloop, KwEndfacet>>

\* a block of the text: a triangle and what is wrong with its block
Block(kind, t) == [kind |-> kind, tri |-> t]
BlockKinds ==
  {"good", "upper_case", "no_endfacet", "two_vertices", "not_a_number",
   "bad_number"}
WellFormed == {"good", "upper_case"}
BlockUniverse ==
  {Block("good", TB)} \cup {Block(k, TA) : k \in BlockKinds}

BlockWords(bl) ==
  LET w == FacetBlock(bl.tri)
  IN  CASE bl.kind = "good" -> w
        [] bl.kind = "upper_case" -> [w EXCEPT ![8] = <<86, 69, 82, 84, 69, 88>>]
        [] bl.kind = "no_endfacet" -> SubSeq(w, 1, 20)
        [] bl.kind = "two_vertices" -> SubSeq(w, 1, 15) \o SubSeq(w, 20, 21)
        [] bl.kind = "not_a_number" -> [w EXCEPT ![3] = <<97, 98, 99>>]
        [] bl.kind = "bad_number" -> [w EXCEPT ![3] = <<49, 46, 50, 46, 51>>]

\* the words joined, a space after each but the last, a newline after it
RECURSIVE Join(_)
Join(ws) ==
  IF ws = <<>> THEN <<>>
  ELSE IF Len(ws) = 1 THEN Head(ws) \o <<10>>
  ELSE Head(ws) \o <<32>> \o Join(Tail(ws))

\* solid m <blocks> endsolid m
Text(bls) ==
  Join(<<SolidBytes, <<109>>>>
       \o Flatten([i \in 1..Len(bls) |-> BlockWords(bls[i])])
       \o <<KwEndsolid, <<109>>>>)

(***************************************************************************)
(* BuildingIndex.merge_buildings_to_stl                                    *)
(***************************************************************************)
\* open(stl_path, 'rb') and _read_stl_triangles: open raises when no file
\* is at the path
ReadFile(files, path) ==
  IF files[path] = NoFile THEN Raised
  ELSE ReadStlTriangles(Content(files[path]))

\* MergedTriangles stopped by the first record whose read raises
RECURSIVE MergedTrianglesAborting(_, _)
MergedTrianglesAborting(blds, files) ==
  IF blds = <<>> THEN <<>>
  ELSE LET r == ReadFile(files, Head(blds).file_path)
       IN  IF r.raised THEN <<>>
           ELSE r.tris \o MergedTrianglesAborting(Tail(blds), files)

\* MergedTriangles with each record's triangles put before the earlier ones
RECURSIVE MergedTrianglesPrepended(_, _)
MergedTrianglesPrepended(blds, files) ==
  IF blds = <<>> THEN <<>>
  ELSE LET r == ReadFile(files, Head(blds).file_path)
       IN  MergedTrianglesPrepended(Tail(blds), files)
             \o (IF r.raised THEN <<>> ELSE r.tris)

\* the loop over the buildings: try: all_triangles.extend(...)
\* except Exception: continue
RECURSIVE MergedTriangles(_, _)
MergedTriangles(blds, files) ==
  IF blds = <<>> THEN <<>>
  ELSE LET r == ReadFile(files, Head(blds).file_path)
       IN  (IF r.raised THEN <<>> ELSE r.tris)
             \o MergedTriangles(Tail(blds), files)

MergeBuildingsToStl(blds, files) ==
  IF blds = <<>> THEN <<>>
  ELSE LET all_triangles == MergedTriangles(blds, files)
       IN  IF all_triangles = <<>> THEN <<>>
           ELSE WriteBinaryStl(all_triangles)

(***************************************************************************)
(* BuildingIndex.get_buildings_preview_data                                *)
(***************************************************************************)
\* the dict returned when there is nothing to show
EmptyPreview(building_count) ==
  [tris |-> <<>>, vertices |-> <<>>, normals |-> <<>>,
   triangleCount |-> 0, buildingCount |-> building_count,
   center |-> [axis \in 1..3 |-> <<0, 1>>], scale |-> <<1, 1>>]

\* the dict made of the kept (normal, vertices) pairs and their buffers b;
\* tris is the kept pairs
BuildingsPreview(kept, b, building_count) ==
  [tris |-> kept,
   vertices |-> b.vertices,
   normals |-> b.normals,
   triangleCount |-> Len(kept),
   buildingCount |-> building_count,
   center |-> b.center,
   scale |-> b.scale]

\* from "Simplify if needed" on, all_triangles not empty
PreviewOfTriangles(all_triangles, k, building_count) ==
  BuildingsPreview(
    Decimate(all_triangles, k),
    PreviewBuffers(
      Reshape3(Vectors(Decimate(all_triangles, k))),
      Repeat3([i \in 1..Len(Decimate(all_triangles, k)) |->
                 Decimate(all_triangles, k)[i][1]])),
    building_count)

\* get_buildings_preview_data(buildings, max_triangles), max_triangles >= 1
GetBuildingsPreviewData(blds, files, k) ==
  IF blds = <<>> THEN EmptyPreview(0)
  ELSE IF MergedTriangles(blds, files) = <<>> THEN EmptyPreview(Len(blds))
  ELSE PreviewOfTriangles(MergedTriangles(blds, files), k, Len(blds))

(***************************************************************************)
(* The catalog file and the mesh directory.                                *)
(* A row carries way_code, lat and lon (degrees); blender_x, blender_y     *)
(* and height_m are copied into the Building unread and are left out.      *)
(***************************************************************************)
WayCodes == {"w1", "w2"}
Row(w, lat, lon) == [way_code |-> w, lat |-> lat, lon |-> lon]
\* two rows of RowUniverse repeat the way_code w1
RowUniverse == {Row("w1", 0, 0), Row("w2", 30, 30), Row("w1", 60, 30)}
Lats == {0, 30, 60}
Lons == {0, 30}
\* radii in metres; 3335848 and 4013890 are distances between grid points
Radii == {0, 3335848, 4013890, 7000000}

\* the file a fragment is stored in, when it exists
FragmentFile == File(WriteBinaryStl(<<TA>>))

(***************************************************************************)
(* haversine_distance, in metres, at the grid points of Lats x Lons: the   *)
(* values the function returns there, rounded to the metre.  It depends on *)
(* the two latitudes and on the difference of the longitudes.              *)
(***************************************************************************)
Abs(x) == IF x < 0 THEN -x ELSE x
Min2(a, b) == IF a <= b THEN a ELSE b
Max2(a, b) == IF a <= b THEN b ELSE a

HaversineDistance(lat1, lon1, lat2, lon2) ==
  LET lo == Min2(lat1, lat2)
      hi == Max2(lat1, lat2)
      dl == Abs(lon2 - lon1)
  IN  CASE <<lo, hi, dl>> = <<0, 0, 0>>    -> 0
        [] <<lo, hi, dl>> = <<0, 0, 30>>   -> 3335848
        [] <<lo, hi, dl>> = <<0, 30, 0>>   -> 3335848
        [] <<lo, hi, dl>> = <<0, 30, 30>>  -> 4604540
        [] <<lo, hi, dl>> = <<0, 60, 0>>   -> 6671696
        [] <<lo, hi, dl>> = <<0, 60, 30>>  -> 7154403
        [] <<lo, hi, dl>> = <<30, 30, 0>>  -> 0
        [] <<lo, hi, dl>> = <<30, 30, 30>> -> 2880513
        [] <<lo, hi, dl>> = <<30, 60, 0>>  -> 3335848
        [] <<lo, hi, dl>> = <<30, 60, 30>> -> 4013890
        [] <<lo, hi, dl>> = <<60, 60, 0>>  -> 0
        [] <<lo, hi, dl>> = <<60, 60, 30>> -> 1653574

(***************************************************************************)
(* BuildingIndex.build_index and ensure_indexed                            *)
(***************************************************************************)
\* Building(way_code=..., lat=..., lon=..., file_path=buildings_dir/<way_code>.stl)
Building(row) ==
  [way_code |-> row.way_code, lat |-> row.lat, lon |-> row.lon,
   file_path |-> row.way_code]

\* file_path.exists()
PathExists(files, path) == files[path] # NoFile

\* IndexRow without the test of file_path.exists()
IndexRowUnchecked(blds, row, files) == Append(blds, Building(row))

\* one pass of the loop over the rows: "Only add if file exists"
IndexRow(blds, row, files) ==
  IF PathExists(files, row.way_code) THEN Append(blds, Building(row))
  ELSE blds

\* the loop over the reader's rows, from self.buildings = []
RECURSIVE ScanRows(_, _, _)
ScanRows(blds, rows, files) ==
  IF rows = <<>> THEN blds
  ELSE ScanRows(IndexRow(blds, Head(rows), files), Tail(rows), files)

\* BuildIndex without the two tests of exists(): every row is taken
BuildIndexUntested(ix, csvOk, dirOk, rows, files) ==
  LET blds == [i \in 1..Len(rows) |-> Building(rows[i])]
  IN  [buildings |-> blds, indexed |-> TRUE, ret |-> Len(blds)]

\* build_index from the state ix = [buildings, indexed]: the new state and
\* the value returned
BuildIndex(ix, csvOk, dirOk, rows, files) ==
  IF ~csvOk THEN [buildings |-> ix.buildings, indexed |-> ix.indexed, ret |-> 0]
  ELSE IF ~dirOk
    THEN [buildings |-> ix.buildings, indexed |-> ix.indexed, ret |-> 0]
  ELSE LET blds == ScanRows(<<>>, rows, files)
       IN  [buildings |-> blds, indexed |-> TRUE, ret |-> Len(blds)]

\* the state of the index, as BuildIndex reads it
Ix == [buildings |-> buildings, indexed |-> indexed]

\* ensure_indexed, as a change of buildings, indexed, the counters and buildRet
EnsureIndexedStep ==
  /\ ensureCalls' = ensureCalls + 1
  /\ IF ~indexed
       THEN LET r == BuildIndex(Ix, csvExists, dirExists, csvRows, stlFiles)
            IN  /\ buildings' = r.buildings
                /\ indexed' = r.indexed
                /\ buildRet' = Some(r.ret)
                /\ buildCalls' = buildCalls + 1
       ELSE UNCHANGED <<buildings, indexed, buildRet, buildCalls>>

(***************************************************************************)
(* The queries                                                             *)
(***************************************************************************)
\* FindInBounds with the upper latitude limit exclusive
RECURSIVE FindInBoundsExclusive(_, _, _, _, _)
FindInBoundsExclusive(blds, lat_min, lat_max, lon_min, lon_max) ==
  IF blds = <<>> THEN <<>>
  ELSE LET b == Head(blds)
           rest == FindInBoundsExclusive(Tail(blds), lat_min, lat_max,
                                         lon_min, lon_max)
       IN  IF /\ lat_min <= b.lat /\ b.lat < lat_max
              /\ lon_min <= b.lon /\ b.lon <= lon_max
           THEN <<b>> \o rest ELSE rest

\* find_buildings_in_bounds: the loop over self.buildings
RECURSIVE FindInBounds(_, _, _, _, _)
FindInBounds(blds, lat_min, lat_max, lon_min, lon_max) ==
  IF blds = <<>> THEN <<>>
  ELSE LET b == Head(blds)
           rest == FindInBounds(Tail(blds), lat_min, lat_max, lon_min, lon_max)
       IN  IF /\ lat_min <= b.lat /\ b.lat <= lat_max
              /\ lon_min <= b.lon /\ b.lon <= lon_max
           THEN <<b>> \o rest ELSE rest

\* FindInRadius with the radius exclusive
RECURSIVE FindInRadiusExclusive(_, _, _, _)
FindInRadiusExclusive(blds, center_lat, center_lon, radius_meters) ==
  IF blds = <<>> THEN <<>>
  ELSE LET b == Head(blds)
           distance == HaversineDistance(center_lat, center_lon, b.lat, b.lon)
           rest == FindInRadiusExclusive(Tail(blds), center_lat, center_lon,
                                         radius_meters)
       IN  IF distance < radius_meters THEN <<b>> \o rest ELSE rest

\* find_buildings_in_radius: the loop over self.buildings
RECURSIVE FindInRadius(_, _, _, _)
FindInRadius(blds, center_lat, center_lon, radius_meters) ==
  IF blds = <<>> THEN <<>>
  ELSE LET b == Head(blds)
           distance == HaversineDistance(center_lat, center_lon, b.lat, b.lon)
           rest == FindInRadius(Tail(blds), center_lat, center_lon, radius_meters)
       IN  IF distance <= radius_meters THEN <<b>> \o rest ELSE rest

\* min(lats), max(lats) of get_stats
MinOf(S) == CHOOSE x \in S : \A y \in S : x <= y
MaxOf(S) == CHOOSE x \in S : \A y \in S : y <= x

GetStatsResult(blds) ==
  IF blds = <<>> THEN [total_buildings |-> 0]
  ELSE LET lats == {blds[i].lat : i \in DOMAIN blds}
           lons == {blds[i].lon : i \in DOMAIN blds}
       IN  [total_buildings |-> Len(blds),
            lat_range |-> <<MinOf(lats), MaxOf(lats)>>,
            lon_range |-> <<MinOf(lons), MaxOf(lons)>>,
            center |-> <<(MinOf(lats) + MaxOf(lats)) \div 2,
                         (MinOf(lons) + MaxOf(lons)) \div 2>>]

(***************************************************************************)
(* STLProcessor: load_mesh, _calculate_bounds, get_bounds, get_mesh_info   *)
(* The file at stl_path is NoFile or File(the vectors Mesh.from_file reads  *)
(* out of it, at least one triangle).  A processor state is                *)
(* [mesh, bounds, loads]: _mesh, _bounds and the number of file reads.     *)
(***************************************************************************)
MeshFiles == {File(Vectors(t)) : t \in SeqsUpTo(TriUniverse, MaxMesh) \ {<<>>}}

Proc == [mesh |-> mesh, bounds |-> bounds, loads |-> loadCalls]

\* vertices[:, axis] of self._mesh.vectors.reshape(-1, 3)
Coords(m, axis) == {m[i][j][axis] : i \in DOMAIN m, j \in 1..3}

\* _calculate_bounds
CalculateBounds(m) ==
  [min_x |-> MinOf(Coords(m, 1)), max_x |-> MaxOf(Coords(m, 1)),
   min_y |-> MinOf(Coords(m, 2)), max_y |-> MaxOf(Coords(m, 2)),
   min_z |-> MinOf(Coords(m, 3)), max_z |-> MaxOf(Coords(m, 3))]

\* load_mesh: the new processor state and the value returned (ok)
LoadMesh(p, file) ==
  IF file = NoFile
    THEN [mesh |-> p.mesh, bounds |-> p.bounds, loads |-> p.loads, ok |-> FALSE]
    ELSE [mesh |-> Some(Content(file)),
          bounds |-> Some(CalculateBounds(Content(file))),
          loads |-> p.loads + 1, ok |-> TRUE]

\* if self._mesh is None: if not self.load_mesh(): return ...
LoadIfNone(p, file) ==
  IF p.mesh = None THEN LoadMesh(p, file)
  ELSE [mesh |-> p.mesh, bounds |-> p.bounds, loads |-> p.loads, ok |-> TRUE]

\* get_bounds: loads when _mesh is None, whatever load_mesh returns
GetBounds(p, file) ==
  LET q == LoadIfNone(p, file) IN [proc |-> q, ret |-> q.bounds]

\* get_mesh_info, without file_size_mb
GetMeshInfo(p, file) ==
  LET q == LoadIfNone(p, file)
  IN  [proc |-> q,
       ret |-> IF ~q.ok THEN [error |-> "Failed to load mesh"]
               ELSE [triangle_count |-> Len(Val(q.mesh)),
                     vertex_count |-> Len(Val(q.mesh)) * 3,
                     bounds |-> q.bounds]]

(***************************************************************************)
(* STLProcessor.clip_by_bounds and clip_by_percentage                      *)
(***************************************************************************)
\* the distance between neighbouring float32 values at n/d >= 0: 1 up to
\* 2^24, 2 up to 2^25, 4 up to 2^26.  Below 2^23 a float32 holds fractions;
\* the quotients the model forms there are integers
Float32Spacing(n, d) ==
  IF n < 16777216 * d THEN 1
  ELSE IF n < 33554432 * d THEN 2
  ELSE IF n < 67108864 * d THEN 4
  ELSE 8

\* n/m rounded to the nearest integer, a tie to the even one
RoundHalfEven(n, m) ==
  IF 2 * (n % m) > m \/ (2 * (n % m) = m /\ (n \div m) % 2 = 1)
    THEN (n \div m) + 1
    ELSE n \div m

\* a/d >= 0 rounded to the nearest multiple of the spacing u
RoundToSpacing(a, d, u) == RoundHalfEven(a, d * u) * u

\* n/d rounded to the nearest float32, a tie to the even significand
Float32(n, d) ==
  IF n < 0 THEN -RoundToSpacing(-n, d, Float32Spacing(-n, d))
  ELSE RoundToSpacing(n, d, Float32Spacing(n, d))

\* np.mean of three float32 values: the sum accumulated in float32, then
\* divided by the count in float32
Mean32(a, b, c) == Float32(Float32(Float32(a + b, 1) + c, 1), 3)

\* np.mean(triangles, axis=1) of one triangle
Mean3(v) ==
  <<Mean32(v[1][1], v[2][1], v[3][1]),
    Mean32(v[1][2], v[2][2], v[3][2]),
    Mean32(v[1][3], v[2][3], v[3][3])>>

\* the vertex triples of the triangles the meshes are made of
Corners == {t[2] : t \in TriUniverse \cup {TW, TF}}

\* Mean3 of each of them, worked out once
Centroids == [v \in Corners |-> Mean3(v)]

\* centroids[i] for the triangle v
Centroid(v) == IF v \in Corners THEN Centroids[v] ELSE Mean3(v)

\* a mask that tests z as soon as one of min_z and max_z is given
InMaskLoneZ(v, min_x, max_x, min_y, max_y, min_z, max_z) ==
  LET c == Centroid(v)
  IN  /\ c[1] >= min_x /\ c[1] <= max_x
      /\ c[2] >= min_y /\ c[2] <= max_y
      /\ (min_z # None) => c[3] >= Val(min_z)
      /\ (max_z # None) => c[3] <= Val(max_z)

\* the mask of one triangle
InMask(v, min_x, max_x, min_y, max_y, min_z, max_z) ==
  LET c == Centroid(v)
  IN  /\ c[1] >= min_x /\ c[1] <= max_x
      /\ c[2] >= min_y /\ c[2] <= max_y
      /\ (min_z # None /\ max_z # None) =>
           (c[3] >= Val(min_z) /\ c[3] <= Val(max_z))

\* triangles[mask]
RECURSIVE Masked(_, _, _, _, _, _, _)
Masked(m, min_x, max_x, min_y, max_y, min_z, max_z) ==
  IF m = <<>> THEN <<>>
  ELSE LET rest == Masked(Tail(m), min_x, max_x, min_y, max_y, min_z, max_z)
       IN  IF InMask(Head(m), min_x, max_x, min_y, max_y, min_z, max_z)
           THEN <<Head(m)>> \o rest ELSE rest

\* clip_by_bounds: the new processor state and the value returned, None or
\* Some(the vectors of the clipped mesh); min_z and max_z are optional
ClipByBounds(p, file, min_x, max_x, min_y, max_y, min_z, max_z) ==
  LET q == LoadIfNone(p, file)
  IN  IF ~q.ok THEN [proc |-> q, ret |-> None]
      ELSE LET filtered ==
                 Masked(Val(q.mesh), min_x, max_x, min_y, max_y, min_z, max_z)
           IN  [proc |-> q,
                ret |-> IF Len(filtered) = 0 THEN None ELSE Some(filtered)]

\* n * f for a fraction f given as a number of halves (0, 1/2, 1)
TimesHalves(n, h) == (n * h) \div 2

\* clip_by_percentage, the fractions given in halves
ClipByPercentage(p, file, x_start, x_end, y_start, y_end) ==
  LET q == LoadIfNone(p, file)
  IN  IF ~q.ok THEN [proc |-> q, ret |-> None]
      ELSE IF q.bounds = None THEN [proc |-> q, ret |-> None]
      ELSE LET b == Val(q.bounds)
               mesh_width  == b.max_x - b.min_x
               mesh_height == b.max_y - b.min_y
           IN  ClipByBounds(q, file,
                 b.min_x + TimesHalves(mesh_width, x_start),
                 b.min_x + TimesHalves(mesh_width, x_end),
                 b.min_y + TimesHalves(mesh_height, y_start),
                 b.min_y + TimesHalves(mesh_height, y_end),
                 None, None)

(***************************************************************************)
(* Exact arithmetic for the coordinate transforms.  A natural number is    *)
(* the sequence of its digits in base Base, lowest first, without leading  *)
(* zeros; an integer is [neg, mag]; a rational is [num, den] with den > 0. *)
(***************************************************************************)
Base == 10000

RECURSIVE Trim(_)
Trim(a) ==
  IF a = <<>> \/ a[Len(a)] # 0 THEN a ELSE Trim(SubSeq(a, 1, Len(a) - 1))

RECURSIVE NatOf(_)
NatOf(n) == IF n = 0 THEN <<>> ELSE <<n % Base>> \o NatOf(n \div Base)

Limb(a, i) == IF i <= Len(a) THEN a[i] ELSE 0
Rest(a) == IF a = <<>> THEN <<>> ELSE Tail(a)

RECURSIVE NatAddC(_, _, _)
NatAddC(a, b, carry) ==
  IF a = <<>> /\ b = <<>> THEN (IF carry = 0 THEN <<>> ELSE <<carry>>)
  ELSE LET s == Limb(a, 1) + Limb(b, 1) + carry
       IN  <<s % Base>> \o NatAddC(Rest(a), Rest(b), s \div Base)

NatAdd(a, b) == NatAddC(a, b, 0)

NatLess(a, b) ==
  IF Len(a) # Len(b) THEN Len(a) < Len(b)
  ELSE \E i \in 1..Len(a) :
         a[i] < b[i] /\ \A j \in (i + 1)..Len(a) : a[j] = b[j]

\* a - b for a >= b
RECURSIVE NatSubB(_, _, _)
NatSubB(a, b, borrow) ==
  IF a = <<>> THEN <<>>
  ELSE LET d == a[1] - Limb(b, 1) - borrow
       IN  IF d < 0 THEN <<d + Base>> \o NatSubB(Tail(a), Rest(b), 1)
           ELSE <<d>> \o NatSubB(Tail(a), Rest(b), 0)

NatSub(a, b) == Trim(NatSubB(a, b, 0))

RECURSIVE NatMulLimb(_, _, _)
NatMulLimb(a, d, carry) ==
  IF a = <<>> THEN (IF carry = 0 THEN <<>> ELSE <<carry>>)
  ELSE LET q == a[1] * d + carry
       IN  <<q % Base>> \o NatMulLimb(Tail(a), d, q \div Base)

Shift(a) == IF a = <<>> THEN <<>> ELSE <<0>> \o a

RECURSIVE NatMul(_, _)
NatMul(a, b) ==
  IF a = <<>> \/ b = <<>> THEN <<>>
  ELSE NatAdd(Trim(NatMulLimb(a, b[1], 0)), Shift(NatMul(a, Tail(b))))

Sgn(neg, mag) == [neg |-> neg /\ mag # <<>>, mag |-> mag]
SgnOf(n) == IF n < 0 THEN Sgn(TRUE, NatOf(-n)) ELSE Sgn(FALSE, NatOf(n))
SgnNeg(a) == Sgn(~a.neg, a.mag)
SgnAdd(a, b) ==
  IF a.neg = b.neg THEN Sgn(a.neg, NatAdd(a.mag, b.mag))
  ELSE IF NatLess(a.mag, b.mag) THEN Sgn(b.neg, NatSub(b.mag, a.mag))
  ELSE Sgn(a.neg, NatSub(a.mag, b.mag))
SgnMul(a, b) == Sgn(a.neg # b.neg, NatMul(a.mag, b.mag))
SgnLess(a, b) ==
  IF a.neg # b.neg THEN a.neg
  ELSE IF a.neg THEN NatLess(b.mag, a.mag) ELSE NatLess(a.mag, b.mag)

Rat(num, den) == [num |-> num, den |-> den]
RatOf(n) == Rat(SgnOf(n), NatOf(1))
\* the decimal literal (-)ip.f with f given as four decimal places
Dec(neg, ip, f) ==
  Rat(Sgn(neg, NatAdd(NatMul(NatOf(ip), NatOf(Base)), NatOf(f))), NatOf(Base))
Scaled(a, den) == SgnMul(a, Sgn(FALSE, den))
RatAdd(a, b) ==
  Rat(SgnAdd(Scaled(a.num, b.den), Scaled(b.num, a.den)), NatMul(a.den, b.den))
RatNeg(a) == Rat(SgnNeg(a.num), a.den)
RatSub(a, b) == RatAdd(a, RatNeg(b))
RatMul(a, b) == Rat(SgnMul(a.num, b.num), NatMul(a.den, b.den))
\* a / b for b # 0
RatDiv(a, b) ==
  Rat(Sgn(a.num.neg # b.num.neg, NatMul(a.num.mag, b.den)),
      NatMul(a.den, b.num.mag))
RatEq(a, b) == Scaled(a.num, b.den) = Scaled(b.num, a.den)
RatLess(a, b) == SgnLess(Scaled(a.num, b.den), Scaled(b.num, a.den))
RatLeq(a, b) == ~RatLess(b, a)

\* the integers a bound admits: for an integer c, c >= r iff c >= Ceil(r)
\* and c <= r iff c <= Floor(r)
\* the floor of r, for lo <= r < hi, by bisection
RECURSIVE FloorIn(_, _, _)
FloorIn(r, lo, hi) ==
  IF hi = lo + 1 THEN lo
  ELSE LET mid == (lo + hi) \div 2
       IN  IF RatLess(r, RatOf(mid)) THEN FloorIn(r, lo, mid)
           ELSE FloorIn(r, mid, hi)

GridEnd == 128
Floor(r) == FloorIn(r, -GridEnd, GridEnd)
Ceil(r) == -Floor(RatNeg(r))

(***************************************************************************)
(* STLProcessor.wgs84_to_local, clip_by_geo_bounds and clip_by_district    *)
(***************************************************************************)
SCALE_X  == Dec(FALSE, 79491, 5625)
SCALE_Y  == Dec(FALSE, 68407, 5859)
OFFSET_X == Dec(TRUE, 8226234, 5000)
OFFSET_Y == Dec(TRUE, 77697, 3594)

\* wgs84_to_local: <<x, y>>
Wgs84ToLocal(lat, lng) ==
  <<RatAdd(RatMul(SCALE_X, lng), OFFSET_X),
    RatAdd(RatMul(SCALE_Y, lat), OFFSET_Y)>>

\* the geographic arguments tried: the longitude that lies at local x and
\* the latitude that lies at local y
LngAt(x) == RatDiv(RatSub(RatOf(x), OFFSET_X), SCALE_X)
LatAt(y) == RatDiv(RatSub(RatOf(y), OFFSET_Y), SCALE_Y)

RatMin(a, b) == IF RatLess(b, a) THEN b ELSE a
RatMax(a, b) == IF RatLess(b, a) THEN a ELSE b

\* lines 167-176 of clip_by_geo_bounds: the corners are put in order and
\* given to clip_by_bounds.  The centroids of the meshes tried are integers,
\* so a bound is given as the integers it admits
ClipCorners(q, file, lo, hi) ==
  ClipByBounds(q, file,
               Ceil(RatMin(lo[1], hi[1])), Floor(RatMax(lo[1], hi[1])),
               Ceil(RatMin(lo[2], hi[2])), Floor(RatMax(lo[2], hi[2])),
               None, None)

\* clip_by_geo_bounds
ClipByGeoBounds(p, file, lat_min, lat_max, lng_min, lng_max) ==
  LET q == LoadIfNone(p, file)
  IN  IF ~q.ok THEN [proc |-> q, ret |-> None]
      ELSE IF q.bounds = None THEN [proc |-> q, ret |-> None]
      ELSE ClipCorners(q, file, Wgs84ToLocal(lat_min, lng_min),
                       Wgs84ToLocal(lat_max, lng_max))

\* np.cos(np.radians(center_lat)) to four decimal places; the latitudes
\* tried lie between 1.1358 and 1.1365 degrees
CosRadians(lat) == Dec(FALSE, 0, 9998)

\* radius_stl of clip_by_district
RadiusStl(center_lat, radius_meters) ==
  LET meters_per_deg_lng == RatMul(RatOf(111320), CosRadians(center_lat))
      meters_per_deg_lat == RatOf(111320)
      stl_per_meter_x == RatDiv(SCALE_X, meters_per_deg_lng)
      stl_per_meter_y == RatDiv(SCALE_Y, meters_per_deg_lat)
      stl_per_meter == RatDiv(RatAdd(stl_per_meter_x, stl_per_meter_y),
                              RatOf(2))
  IN  RatMul(RatOf(radius_meters), stl_per_meter)

\* ClipSquare on the part of the plane beyond the centre plus the radius
ClipBeyondSquare(q, file, center, radius_stl) ==
  ClipByBounds(q, file,
               Ceil(RatAdd(center[1], radius_stl)), GridEnd,
               Ceil(RatAdd(center[2], radius_stl)), GridEnd,
               None, None)

\* lines 220-231 of clip_by_district: the square around the centre is
\* given to clip_by_bounds
ClipSquare(q, file, center, radius_stl) ==
  ClipByBounds(q, file,
               Ceil(RatSub(center[1], radius_stl)),
               Floor(RatAdd(center[1], radius_stl)),
               Ceil(RatSub(center[2], radius_stl)),
               Floor(RatAdd(center[2], radius_stl)),
               None, None)

\* clip_by_district
ClipByDistrict(p, file, center_lat, center_lng, radius_meters) ==
  LET q == LoadIfNone(p, file)
  IN  IF ~q.ok THEN [proc |-> q, ret |-> None]
      ELSE IF q.bounds = None THEN [proc |-> q, ret |-> None]
      ELSE ClipSquare(q, file, Wgs84ToLocal(center_lat, center_lng),
                      RadiusStl(center_lat, radius_meters))

(***************************************************************************)
(* analyze_stl.py: stl_to_wgs84, the mapping of the diagnostic script.  It *)
(* stretches the extent of the centroids of the mesh it loaded over a      *)
(* fixed geographic box.                                                   *)
(***************************************************************************)
sg_lat_min == Dec(FALSE, 1, 1560)
sg_lat_max == Dec(FALSE, 1, 4720)
sg_lng_min == Dec(FALSE, 103, 6050)
sg_lng_max == Dec(FALSE, 104, 440)

\* min_x, max_x, min_y, max_y of analyze_stl.py: the extent of the centroids
CentroidExtent(m) ==
  LET xs == {Centroid(m[i])[1] : i \in DOMAIN m}
      ys == {Centroid(m[i])[2] : i \in DOMAIN m}
  IN  [min_x |-> MinOf(xs), max_x |-> MaxOf(xs),
       min_y |-> MinOf(ys), max_y |-> MaxOf(ys)]

\* stl_to_wgs84: Some(<<lat, lng>>), or None when an extent is zero and the
\* division gives inf or nan
StlToWgs84(e, x, y) ==
  IF e.max_x = e.min_x \/ e.max_y = e.min_y THEN None
  ELSE Some(<<RatAdd(sg_lat_min,
                     RatMul(RatDiv(RatSub(y, RatOf(e.min_y)),
                                   RatOf(e.max_y - e.min_y)),
                            RatSub(sg_lat_max, sg_lat_min))),
              RatAdd(sg_lng_min,
                     RatMul(RatDiv(RatSub(x, RatOf(e.min_x)),
                                   RatOf(e.max_x - e.min_x)),
                            RatSub(sg_lng_max, sg_lng_min)))>>)

\* a number of thousandths as a rational
Thousandths(n) == RatDiv(RatOf(n), RatOf(1000))

(***************************************************************************)
(* main.py: start_export and process_export_job.  A district is            *)
(* [id, y, x, lat, lng].  The meshes and the catalog rows of the model are *)
(* drawn at different scales, so the centre is given at both: in the plane *)
(* of the mesh it is (LatAt(y), LngAt(x)), on the degree grid of the       *)
(* catalog rows it is (lat, lng).  A job is                                *)
(* [district, status, progress, file_bytes, attempts], attempts being the  *)
(* clips made for it, each [radius, count].                                *)
(***************************************************************************)
\* three districts stand for the eight of models.py, placed on and off the
\* meshes tried: "1" and "3" at their middle, "2" far outside; on the grid
\* of the catalog "1" and "2" lie on a row and "3" beside one
SINGAPORE_DISTRICTS ==
  {[id |-> "1", y |-> 6, x |-> 6, lat |-> 0, lng |-> 0],
   [id |-> "2", y |-> 40, x |-> 40, lat |-> 30, lng |-> 30],
   [id |-> "3", y |-> 6, x |-> 6, lat |-> 60, lng |-> 0]}

DistrictIds == {d.id : d \in SINGAPORE_DISTRICTS}

\* next((d for d in SINGAPORE_DISTRICTS if d.id == district_id), None)
DistrictOf(id) ==
  IF id \in DistrictIds
    THEN Some(CHOOSE d \in SINGAPORE_DISTRICTS : d.id = id)
    ELSE None

\* the 600 metres of DISTRICT_RADIUS.get, at the scale of the meshes tried
DefaultRadius == 12

\* DISTRICT_RADIUS.get(district_id, 600), in metres
DISTRICT_RADIUS(id) ==
  CASE id = "1" -> 4
    [] id = "2" -> 4
    [] OTHER -> DefaultRadius

Job(district, status, progress, file_bytes, attempts) ==
  [district |-> district, status |-> status, progress |-> progress,
   file_bytes |-> file_bytes, attempts |-> attempts]

\* start_export: the job it creates, None for a district that does not exist
StartExport(district_id) ==
  IF DistrictOf(district_id) = None THEN None
  ELSE Some(Job(district_id, "Processing", 0, 0, <<>>))

Attempt(radius, ret) ==
  [radius |-> radius, count |-> IF ret = None THEN 0 ELSE Len(Val(ret))]

\* clipped is None or len(clipped.vectors) == 0
NoGeometry(ret) == ret = None \/ Len(Val(ret)) = 0

\* lines 485-501 of process_export_job without the second clip
JobAfterOneClip(q, j, radius, first) ==
  [proc |-> q,
   job |-> IF NoGeometry(first)
           THEN Job(j.district, "Error", 100, 0, <<Attempt(radius, first)>>)
           ELSE Job(j.district, "Ready", 100, Len(MeshToBinaryStl(first)),
                    <<Attempt(radius, first)>>)]

\* process_export_job that clips once
ProcessExportJobOnce(p, file, j) ==
  LET district == DistrictOf(j.district)
      q == LoadMesh(p, file)
  IN  IF district = None
        THEN [proc |-> p, job |-> Job(j.district, "Error", 0, 0, <<>>)]
      ELSE IF ~q.ok
        THEN [proc |-> q, job |-> Job(j.district, "Error", 0, 0, <<>>)]
      ELSE JobAfterOneClip(q, j, DISTRICT_RADIUS(j.district),
             ClipByDistrict(q, file, LatAt(Val(district).y),
                            LngAt(Val(district).x),
                            DISTRICT_RADIUS(j.district)).ret)

\* lines 485-501 of process_export_job: first is what the clip at the radius
\* returned, second what the clip at twice the radius returns
JobAfterClips(q, j, radius, first, second) ==
  LET retried == NoGeometry(first)
      clipped == IF retried THEN second ELSE first
      attempts == IF retried
                  THEN <<Attempt(radius, first), Attempt(radius * 2, second)>>
                  ELSE <<Attempt(radius, first)>>
  IN  [proc |-> q,
       job |-> IF NoGeometry(clipped)
               THEN Job(j.district, "Error", 100, 0, attempts)
               ELSE Job(j.district, "Ready", 100,
                        Len(MeshToBinaryStl(clipped)), attempts)]

\* process_export_job: the new processor state and the job; after its
\* load_mesh the mesh is held, and the clips leave the processor as it is
ProcessExportJob(p, file, j) ==
  LET district == DistrictOf(j.district)
      q == LoadMesh(p, file)
  IN  IF district = None
        THEN [proc |-> p, job |-> Job(j.district, "Error", 0, 0, <<>>)]
      ELSE IF ~q.ok
        THEN [proc |-> q, job |-> Job(j.district, "Error", 0, 0, <<>>)]
      ELSE JobAfterClips(q, j, DISTRICT_RADIUS(j.district),
             ClipByDistrict(q, file, LatAt(Val(district).y),
                            LngAt(Val(district).x),
                            DISTRICT_RADIUS(j.district)).ret,
             ClipByDistrict(q, file, LatAt(Val(district).y),
                            LngAt(Val(district).x),
                            DISTRICT_RADIUS(j.district) * 2).ret)

(***************************************************************************)
(* The handlers of main.py on the shared processor                         *)
(***************************************************************************)
\* get_mesh_bounds
GetMeshBoundsHandler(p, file) ==
  LET r == GetBounds(p, file)
  IN  [proc |-> r.proc,
       ret |-> IF r.ret = None
               THEN [status |-> 404, detail |-> "Could not load mesh bounds"]
               ELSE [status |-> 200, body |-> Val(r.ret)]]

\* download_clipped_stl
DownloadClippedStl(p, file, x_start, x_end, y_start, y_end) ==
  LET r == ClipByPercentage(p, file, x_start, x_end, y_start, y_end)
  IN  [proc |-> r.proc,
       ret |-> IF r.ret = None
               THEN [status |-> 404, detail |-> "No geometry in selection"]
               ELSE [status |-> 200, content |-> MeshToBinaryStl(r.ret)]]

\* get_mesh_preview: "If no triangles in selection, return full mesh preview"
GetMeshPreview(p, file, x_start, x_end, y_start, y_end, k) ==
  LET r == ClipByPercentage(p, file, x_start, x_end, y_start, y_end)
  IN  IF r.ret = None
        THEN LET q == LoadMesh(r.proc, file)
             IN  [proc |-> q, ret |-> MeshToJson(q.mesh, TRUE, k)]
        ELSE [proc |-> r.proc, ret |-> MeshToJson(r.ret, TRUE, k)]

(***************************************************************************)
(* main.py: calculate_bounds and the three district handlers on the        *)
(* BuildingIndex.  blds is the catalog after ensure_indexed.               *)
(***************************************************************************)
\* math.cos(math.radians(lat)) to four decimal places, at the latitudes of
\* the districts
MathCos(lat) ==
  CASE lat = 0  -> RatOf(1)
    [] lat = 30 -> Dec(FALSE, 0, 8660)
    [] lat = 60 -> Dec(FALSE, 0, 5000)

\* calculate_bounds(lat, lng, radius_meters)
calculate_bounds(lat, lng, radius_meters) ==
  LET lat_offset == RatDiv(RatOf(radius_meters), RatOf(111320))
      lng_offset == RatDiv(RatOf(radius_meters),
                           RatMul(RatOf(111320), MathCos(lat)))
  IN  [lat_min |-> RatSub(RatOf(lat), lat_offset),
       lat_max |-> RatAdd(RatOf(lat), lat_offset),
       lon_min |-> RatSub(RatOf(lng), lng_offset),
       lon_max |-> RatAdd(RatOf(lng), lng_offset)]

\* a box that takes the latitude limits and leaves the longitude open
FindInLatBand(blds, b) ==
  FindInBounds(blds, Ceil(b.lat_min), Floor(b.lat_max), -GridEnd, GridEnd)

\* find_buildings_in_bounds(bounds['lat_min'], bounds['lat_max'],
\* bounds['lon_min'], bounds['lon_max']); the rows' lat and lon are
\* integers, for which a <= lat is Ceil(a) <= lat and lat <= a is
\* lat <= Floor(a)
FindInBox(blds, b) ==
  FindInBounds(blds, Ceil(b.lat_min), Floor(b.lat_max),
               Ceil(b.lon_min), Floor(b.lon_max))

\* the buildings of a district at a radius
DistrictBuildings(blds, district, radius) ==
  FindInBox(blds, calculate_bounds(district.lat, district.lng, radius))

DistrictNotFound == [status |-> 404, detail |-> "District not found"]

\* "0 MB", and f"{estimated_size_mb:.1f} MB" as a number of tenths
FileSize(decimals, tenths) == [decimals |-> decimals, tenths |-> tenths]

\* lines 266-287 of get_district_stats
SelectionStatsOf(in_bounds) ==
  IF in_bounds = <<>>
    THEN [status |-> 200,
          body |-> [buildings |-> 0, file_size |-> FileSize(0, 0),
                    status |-> "Ready", progress |-> 100]]
    ELSE [status |-> 200,
          body |-> [buildings |-> Len(in_bounds),
                    file_size |->
                      FileSize(1, RoundHalfEven(Len(in_bounds) * 1500 * 10,
                                                1024 * 1024)),
                    status |-> "Ready", progress |-> 100]]

\* get_district_stats
GetDistrictStats(blds, district_id) ==
  IF DistrictOf(district_id) = None THEN DistrictNotFound
  ELSE SelectionStatsOf(
         DistrictBuildings(blds, Val(DistrictOf(district_id)),
                           DISTRICT_RADIUS(district_id)))

\* lines 437-452 of download_district_stl
MergedOrError(in_bounds, files) ==
  IF in_bounds = <<>>
    THEN [status |-> 404, detail |-> "No buildings in_bounds"]
  ELSE IF MergeBuildingsToStl(in_bounds, files) = <<>>
    THEN [status |-> 500, detail |-> "Failed to generate STL"]
  ELSE [status |-> 200, content |-> MergeBuildingsToStl(in_bounds, files)]

\* download_district_stl
DownloadDistrictStl(blds, files, district_id) ==
  IF DistrictOf(district_id) = None THEN DistrictNotFound
  ELSE MergedOrError(
         DistrictBuildings(blds, Val(DistrictOf(district_id)),
                           DISTRICT_RADIUS(district_id)),
         files)

\* the dict of lines 665-674
NoBuildingsPreview ==
  [error |-> "No buildings found", tris |-> <<>>,
   vertices |-> <<>>, normals |-> <<>>,
   triangleCount |-> 0, buildingCount |-> 0,
   center |-> [axis \in 1..3 |-> <<0, 1>>], scale |-> <<1, 1>>]

\* lines 665-676 of get_district_mesh_preview
PreviewOrNone(in_bounds, files, k) ==
  IF in_bounds = <<>> THEN [status |-> 200, body |-> NoBuildingsPreview]
  ELSE [status |-> 200, body |-> GetBuildingsPreviewData(in_bounds, files, k)]

\* get_district_mesh_preview; radius is None or Some(metres), and
\* max_triangles is at least 1, so that nothing raises into the
\* "except Exception" of lines 680-691
GetDistrictMeshPreview(blds, files, district_id, radius, k) ==
  IF DistrictOf(district_id) = None THEN DistrictNotFound
  ELSE PreviewOrNone(
         DistrictBuildings(blds, Val(DistrictOf(district_id)),
                           IF radius = None THEN DISTRICT_RADIUS(district_id)
                           ELSE Val(radius)),
         files, k)

(***************************************************************************)
(* main.py: export_jobs, start_export and the background task              *)
(* process_export_job, step by step.  The task runs on the event loop: it  *)
(* gives way at each "await asyncio.sleep" and nowhere else, so a step is  *)
(* the code between two awaits.                                            *)
(***************************************************************************)
\* ExportJobStatus(job_id=..., district_id=..., status=PROCESSING, progress=0)
ExportJobStatus(job_id, district_id) ==
  [job_id |-> job_id, district_id |-> district_id, status |-> "Processing",
   progress |-> 0, file_size |-> None, download_url |-> None]

\* lines 462-471: export_jobs[job_id].status = SelectionStatus.ERROR
Failed(j) == [j EXCEPT !.status = "Error"]

\* Failed that leaves the job as it is
LeftProcessing(j) == j

\* lines 477-480: one pass of the loop, after its sleep
Progressed(j, progress) == [j EXCEPT !.progress = progress]

\* lines 483-487: the clip at the radius (first), and the clip at twice the
\* radius (second) when that gave nothing
ClippedTwice(first, second) == IF NoGeometry(first) THEN second ELSE first

\* lines 494-496: f"{file_size_mb:.1f} MB" of the bytes of the clipped mesh
StlSize(clipped) ==
  FileSize(1, RoundHalfEven(Len(MeshToBinaryStl(clipped)) * 10, 1024 * 1024))

\* what the end of the task works with: the clipped mesh and, when it holds
\* geometry, the size of its bytes
Exported(clipped) ==
  [clipped |-> clipped,
   file_size |-> IF NoGeometry(clipped) THEN None ELSE Some(StlSize(clipped))]

\* lines 489-501
Finished(j, e) ==
  IF NoGeometry(e.clipped)
    THEN [j EXCEPT !.status = "Error", !.progress = 100]
    ELSE [j EXCEPT !.status = "Ready", !.progress = 100,
                   !.file_size = e.file_size,
                   !.download_url = Some(j.district_id)]

\* lines 479-501: the last pass of the loop, then the end
LastPass(j, e) == Finished(Progressed(j, 75), e)

\* why a clip gave what it gave: the file could not be loaded, or the mesh
\* is loaded and no centroid lies in the bounds, or there is geometry
Cause(r) ==
  IF r.proc.mesh = None THEN "missing"
  ELSE IF r.ret = None THEN "empty" ELSE "geometry"

(***************************************************************************)
(* States in which a part of the program is not in use                     *)
(***************************************************************************)
Requests == 1..MaxRequests

ReadIdle ==
  /\ written = <<>> /\ blocks = <<>>
  /\ stream = <<>> /\ decoded = None
  /\ selection = <<>> /\ merged = <<>>

CodecIdle ==
  /\ triangles = <<>> /\ max_triangles = 1
  /\ stl_bytes = <<>> /\ preview = None
  /\ ReadIdle

IndexIdle ==
  /\ csvExists = FALSE /\ dirExists = FALSE /\ csvRows = <<>>
  /\ stlFiles = [w \in WayCodes |-> NoFile]
  /\ buildings = <<>> /\ indexed = FALSE
  /\ ensureCalls = 0 /\ buildCalls = 0 /\ buildRet = None
  /\ found = None /\ stats = None /\ query = None

\* no export job has been started
NoJob == Job("none", "Idle", 0, 0, <<>>)

JobIdle ==
  /\ clipArgs = None /\ job = NoJob
  /\ point = None /\ image = None
  /\ export_jobs = <<>> /\ tasks = <<>>

ProcIdle ==
  /\ stlFile = NoFile /\ mesh = None /\ bounds = None /\ loadCalls = 0
  /\ response = None /\ answers = {}
  /\ JobIdle

ConcIdle ==
  /\ pc = [r \in Requests |-> "idle"]
  /\ cursor = [r \in Requests |-> 0]

(***************************************************************************)
(* The codec and the preview decimator, called on any triangle sequence    *)
(***************************************************************************)
InitCodec ==
  /\ op = "none"
  /\ triangles \in SeqsUpTo(TriUniverse, MaxTris)
  /\ max_triangles \in 1..MaxK
  /\ stl_bytes = <<>> /\ preview = None
  /\ ReadIdle /\ IndexIdle /\ ProcIdle /\ ConcIdle

WriteBinaryStlCall ==
  /\ stl_bytes' = WriteBinaryStl(triangles)
  /\ op' = "_write_binary_stl"
  /\ UNCHANGED <<triangles, max_triangles, preview, readVars, indexVars,
                 procVars, concVars, jobVars>>

MeshToBinaryStlCall ==
  /\ stl_bytes' = MeshToBinaryStl(Some(Vectors(triangles)))
  /\ op' = "mesh_to_binary_stl"
  /\ UNCHANGED <<triangles, max_triangles, preview, readVars, indexVars,
                 procVars, concVars, jobVars>>

\* called on a mesh that holds triangles: load_mesh and the clips give no other
MeshToJsonCall ==
  /\ triangles # <<>>
  /\ preview' = MeshToJson(Some(Vectors(triangles)), TRUE, max_triangles)
  /\ op' = "mesh_to_json"
  /\ UNCHANGED <<triangles, max_triangles, stl_bytes, readVars, indexVars,
                 procVars, concVars, jobVars>>

NextCodec == WriteBinaryStlCall \/ MeshToBinaryStlCall \/ MeshToJsonCall

SpecCodec == InitCodec /\ [][NextCodec]_vars

(***************************************************************************)
(* Decoding and merge: one stream given to _read_stl_triangles, or one     *)
(* selection given to merge_buildings_to_stl over the files of the mesh    *)
(* directory                                                               *)
(***************************************************************************)
\* what may lie at a building's file_path at the time of a merge: nothing
\* (the file vanished after the index was built), a mesh of zero, one or two
\* triangles, a mesh cut inside its record, a file cut inside its header,
\* and two texts
FragmentFiles ==
  {NoFile,
   File(WriteBinaryStl(<<>>)),
   File(WriteBinaryStl(<<TA>>)),
   File(WriteBinaryStl(<<TB, TC>>)),
   File(Prefix(WriteBinaryStl(<<TA>>), 100)),
   File(Prefix(WriteBinaryStl(<<TA>>), 50)),
   File(Text(<<Block("good", TB)>>)),
   File(Text(<<Block("good", TB), Block("bad_number", TA)>>))}

Selections == SeqsUpTo({Building(r) : r \in RowUniverse}, MaxSelected)

encVars == <<triangles, max_triangles, stl_bytes, preview>>

InitRead ==
  /\ op = "none"
  /\ \/ /\ written \in SeqsUpTo(TriUniverse, MaxFragment)
        /\ blocks = <<>>
        /\ \E n \in Cuts : stream = Prefix(WriteBinaryStl(written), n)
        /\ stlFiles = [w \in WayCodes |-> NoFile]
        /\ selection = <<>>
     \/ /\ written = <<>>
        /\ blocks \in SeqsUpTo(BlockUniverse, MaxBlocks) \ {<<>>}
        /\ stream = Text(blocks)
        /\ stlFiles = [w \in WayCodes |-> NoFile]
        /\ selection = <<>>
     \/ /\ written = <<>> /\ blocks = <<>> /\ stream = <<>>
        /\ stlFiles \in [WayCodes -> FragmentFiles]
        /\ selection \in Selections
  /\ decoded = None /\ merged = <<>>
  /\ triangles = <<>> /\ max_triangles = 1
  /\ stl_bytes = <<>> /\ preview = None
  /\ csvExists = TRUE /\ dirExists = TRUE /\ csvRows = <<>>
  /\ buildings = <<>> /\ indexed = FALSE
  /\ ensureCalls = 0 /\ buildCalls = 0 /\ buildRet = None
  /\ found = None /\ stats = None /\ query = None
  /\ ProcIdle /\ ConcIdle

ReadStlTrianglesCall ==
  /\ decoded' = ReadStlTriangles(stream)
  /\ op' = "_read_stl_triangles"
  /\ UNCHANGED <<written, blocks, stream, selection, merged, encVars, indexVars, procVars,
                 concVars, jobVars>>

MergeBuildingsToStlCall ==
  /\ merged' = MergeBuildingsToStl(selection, stlFiles)
  /\ op' = "merge_buildings_to_stl"
  /\ UNCHANGED <<written, blocks, stream, selection, decoded, encVars, indexVars, procVars,
                 concVars, jobVars>>

NextRead == ReadStlTrianglesCall \/ MergeBuildingsToStlCall

SpecRead == InitRead /\ [][NextRead]_vars

(***************************************************************************)
(* The two preview functions: mesh_to_json on a mesh with triangles, or    *)
(* get_buildings_preview_data on a selection over the files of the mesh    *)
(* directory                                                               *)
(***************************************************************************)
InitPreview ==
  /\ op = "none"
  /\ max_triangles \in 1..MaxK
  /\ \/ /\ triangles \in SeqsUpTo(TriUniverse, MaxPreview) \ {<<>>}
        /\ stlFiles = [w \in WayCodes |-> NoFile]
        /\ selection = <<>>
     \/ /\ triangles = <<>>
        /\ stlFiles \in [WayCodes -> FragmentFiles]
        /\ selection \in Selections
  /\ stl_bytes = <<>> /\ preview = None
  /\ written = <<>> /\ blocks = <<>> /\ stream = <<>>
  /\ decoded = None /\ merged = <<>>
  /\ csvExists = TRUE /\ dirExists = TRUE /\ csvRows = <<>>
  /\ buildings = <<>> /\ indexed = FALSE
  /\ ensureCalls = 0 /\ buildCalls = 0 /\ buildRet = None
  /\ found = None /\ stats = None /\ query = None
  /\ ProcIdle /\ ConcIdle

GetBuildingsPreviewDataCall ==
  /\ preview' = GetBuildingsPreviewData(selection, stlFiles, max_triangles)
  /\ op' = "get_buildings_preview_data"
  /\ UNCHANGED <<triangles, max_triangles, stl_bytes, readVars, indexVars,
                 procVars, concVars, jobVars>>

NextPreview == MeshToJsonCall \/ GetBuildingsPreviewDataCall

SpecPreview == InitPreview /\ [][NextPreview]_vars

(***************************************************************************)
(* The catalog: sequential calls on one BuildingIndex                      *)
(***************************************************************************)
\* a catalog file, a mesh directory and its fragment files; nothing is read
\* from a file or directory that does not exist
InitFiles ==
  /\ csvExists \in BOOLEAN /\ dirExists \in BOOLEAN
  /\ csvRows \in SeqsUpTo(RowUniverse, MaxRows)
  /\ ~csvExists => csvRows = <<>>
  /\ stlFiles \in [WayCodes -> {NoFile, FragmentFile}]
  /\ ~dirExists => stlFiles = [w \in WayCodes |-> NoFile]

Init ==
  /\ op = "none"
  /\ InitFiles
  /\ buildings = <<>> /\ indexed = FALSE
  /\ ensureCalls = 0 /\ buildCalls = 0 /\ buildRet = None
  /\ found = None /\ stats = None /\ query = None
  /\ CodecIdle /\ ProcIdle /\ ConcIdle

filesVars == <<csvExists, dirExists, csvRows, stlFiles>>

EnsureIndexed ==
  /\ ensureCalls < MaxCalls
  /\ EnsureIndexedStep
  /\ op' = "ensure_indexed"
  /\ UNCHANGED <<found, stats, query, filesVars, codecVars, procVars, concVars, jobVars>>

FindBuildingsInBounds ==
  /\ ensureCalls < MaxCalls
  /\ EnsureIndexedStep
  /\ \E lat_min \in Lats, lat_max \in Lats, lon_min \in Lons, lon_max \in Lons :
       /\ query' = [lat_min |-> lat_min, lat_max |-> lat_max,
                    lon_min |-> lon_min, lon_max |-> lon_max]
       /\ found' = FindInBounds(buildings', lat_min, lat_max, lon_min, lon_max)
  /\ stats' = None
  /\ op' = "find_buildings_in_bounds"
  /\ UNCHANGED <<filesVars, codecVars, procVars, concVars, jobVars>>

FindBuildingsInRadius ==
  /\ ensureCalls < MaxCalls
  /\ EnsureIndexedStep
  /\ \E center_lat \in Lats, center_lon \in Lons, radius_meters \in Radii :
       /\ query' = [center_lat |-> center_lat, center_lon |-> center_lon,
                    radius_meters |-> radius_meters]
       /\ found' = FindInRadius(buildings', center_lat, center_lon, radius_meters)
  /\ stats' = None
  /\ op' = "find_buildings_in_radius"
  /\ UNCHANGED <<filesVars, codecVars, procVars, concVars, jobVars>>

GetStats ==
  /\ ensureCalls < MaxCalls
  /\ EnsureIndexedStep
  /\ stats' = GetStatsResult(buildings')
  /\ found' = None /\ query' = None
  /\ op' = "get_stats"
  /\ UNCHANGED <<filesVars, codecVars, procVars, concVars, jobVars>>

Next ==
  EnsureIndexed \/ FindBuildingsInBounds \/ FindBuildingsInRadius \/ GetStats

Spec == Init /\ [][Next]_vars

(***************************************************************************)
(* The three district handlers, called one after the other on one          *)
(* BuildingIndex.  query is [district, radius], the radius None unless one *)
(* was given to get_district_mesh_preview.                                 *)
(***************************************************************************)
\* the ids a client may give: the districts, and one that does not exist
RequestedIds == DistrictIds \cup {"9"}

\* the radius given to get_district_mesh_preview: none, or 30 degrees of
\* latitude in metres
PreviewRadii == {None, Some(3339600)}

\* find_buildings_in_bounds starts with ensure_indexed; a request for a
\* district that does not exist is answered before
IndexForDistrict(id) ==
  IF id \in DistrictIds THEN EnsureIndexedStep
  ELSE UNCHANGED <<buildings, indexed, buildRet, buildCalls, ensureCalls>>

GetDistrictStatsCall ==
  /\ ensureCalls < MaxCalls
  /\ \E id \in RequestedIds :
       /\ IndexForDistrict(id)
       /\ query' = [district |-> id, radius |-> None]
       /\ response' = GetDistrictStats(buildings', id)
  /\ op' = "get_district_stats"
  /\ UNCHANGED <<found, stats, filesVars, codecVars, stlFile, mesh, bounds,
                 loadCalls, answers, concVars, jobVars>>

DownloadDistrictStlCall ==
  /\ ensureCalls < MaxCalls
  /\ \E id \in RequestedIds :
       /\ IndexForDistrict(id)
       /\ query' = [district |-> id, radius |-> None]
       /\ response' = DownloadDistrictStl(buildings', stlFiles, id)
  /\ op' = "download_district_stl"
  /\ UNCHANGED <<found, stats, filesVars, codecVars, stlFile, mesh, bounds,
                 loadCalls, answers, concVars, jobVars>>

GetDistrictMeshPreviewCall ==
  /\ ensureCalls < MaxCalls
  /\ \E id \in RequestedIds, radius \in PreviewRadii, k \in 1..MaxK :
       /\ IndexForDistrict(id)
       /\ query' = [district |-> id, radius |-> radius]
       /\ response' = GetDistrictMeshPreview(buildings', stlFiles, id, radius, k)
  /\ op' = "get_district_mesh_preview"
  /\ UNCHANGED <<found, stats, filesVars, codecVars, stlFile, mesh, bounds,
                 loadCalls, answers, concVars, jobVars>>

NextDistrict ==
  GetDistrictStatsCall \/ DownloadDistrictStlCall \/ GetDistrictMeshPreviewCall

SpecDistrict == Init /\ [][NextDistrict]_vars

(***************************************************************************)
(* Builds and rebuilds: build_index called directly (startup_event does    *)
(* so), while the catalog file and the mesh directory appear and disappear *)
(* between the calls                                                       *)
(***************************************************************************)
BuildIndexCall ==
  /\ buildCalls < MaxCalls
  /\ LET r == BuildIndex(Ix, csvExists, dirExists, csvRows, stlFiles)
     IN  /\ buildings' = r.buildings
         /\ indexed' = r.indexed
         /\ buildRet' = Some(r.ret)
  /\ buildCalls' = buildCalls + 1
  /\ op' = "build_index"
  /\ UNCHANGED <<ensureCalls, found, stats, query, filesVars, codecVars,
                 procVars, concVars, jobVars>>

\* the catalog file is deleted
RemoveCatalog ==
  /\ csvExists
  /\ csvExists' = FALSE /\ csvRows' = <<>>
  /\ UNCHANGED <<op, dirExists, stlFiles, buildings, indexed, ensureCalls,
                 buildCalls, buildRet, found, stats, query, codecVars,
                 procVars, concVars, jobVars>>

\* a catalog file is written where there was none
WriteCatalog ==
  /\ ~csvExists
  /\ csvExists' = TRUE /\ csvRows' \in SeqsUpTo(RowUniverse, MaxRows)
  /\ UNCHANGED <<op, dirExists, stlFiles, buildings, indexed, ensureCalls,
                 buildCalls, buildRet, found, stats, query, codecVars,
                 procVars, concVars, jobVars>>

\* the mesh directory is deleted, with its files
RemoveMeshDir ==
  /\ dirExists
  /\ dirExists' = FALSE /\ stlFiles' = [w \in WayCodes |-> NoFile]
  /\ UNCHANGED <<op, csvExists, csvRows, buildings, indexed, ensureCalls,
                 buildCalls, buildRet, found, stats, query, codecVars,
                 procVars, concVars, jobVars>>

\* a mesh directory is put in place where there was none
MakeMeshDir ==
  /\ ~dirExists
  /\ dirExists' = TRUE /\ stlFiles' \in [WayCodes -> {NoFile, FragmentFile}]
  /\ UNCHANGED <<op, csvExists, csvRows, buildings, indexed, ensureCalls,
                 buildCalls, buildRet, found, stats, query, codecVars,
                 procVars, concVars, jobVars>>

NextRebuild ==
  \/ BuildIndexCall
  \/ RemoveCatalog \/ WriteCatalog \/ RemoveMeshDir \/ MakeMeshDir

SpecRebuild == Init /\ [][NextRebuild]_vars

(***************************************************************************)
(* The shared STLProcessor: sequential requests, and the mesh file being   *)
(* put in place while the process runs                                     *)
(***************************************************************************)
InitProc ==
  /\ op = "none"
  /\ stlFile \in {NoFile} \cup MeshFiles
  /\ mesh = None /\ bounds = None /\ loadCalls = 0
  /\ response = None /\ answers = {}
  /\ JobIdle
  /\ CodecIdle /\ IndexIdle /\ ConcIdle

\* the processor's fields after a call
SetProc(q) ==
  /\ mesh' = q.mesh
  /\ bounds' = q.bounds
  /\ loadCalls' = q.loads

\* what the caller of a clip sees: no mesh, or a mesh
ClipOutcome(ret) == IF ret = None THEN "None" ELSE "mesh"

\* what the client of a handler sees: the error's detail, or a body
HttpOutcome(ret) == IF ret.status = 200 THEN "body" ELSE ret.detail

Answer(name, cause, outcome) ==
  [op |-> name, cause |-> cause, outcome |-> outcome]

\* the raw bounds tried, <<min_x, max_x, min_y, max_y, min_z, max_z>>: the
\* whole extent, a corner, a z slice, a lone min_z, an inverted x range and
\* a box between the centroids
RawBoxes ==
  {<<0, 12, 0, 12, None, None>>,
   <<0, 6, 0, 6, None, None>>,
   <<0, 12, 0, 12, Some(0), Some(0)>>,
   <<0, 12, 0, 12, Some(6), None>>,
   <<12, 0, 0, 12, None, None>>,
   <<3, 5, 3, 5, None, None>>}

\* the <<start, end>> fractions tried on an axis, in halves
Ranges == {<<0, 2>>, <<0, 1>>, <<1, 2>>, <<1, 1>>, <<2, 0>>}

\* an answer is kept when it is not geometry
Remember(a) == IF a.cause = "geometry" THEN {} ELSE {a}

InstallStlFile ==
  /\ stlFile = NoFile
  /\ stlFile' \in MeshFiles
  /\ UNCHANGED <<op, mesh, bounds, loadCalls, response, answers,
                 codecVars, indexVars, concVars, jobVars>>

GetMeshBoundsCall ==
  /\ loadCalls < MaxCalls
  /\ LET r == GetMeshBoundsHandler(Proc, stlFile)
     IN  SetProc(r.proc) /\ response' = r.ret
  /\ op' = "get_mesh_bounds"
  /\ UNCHANGED <<stlFile, answers, codecVars, indexVars, concVars, jobVars>>

GetMeshInfoCall ==
  /\ loadCalls < MaxCalls
  /\ LET r == GetMeshInfo(Proc, stlFile)
     IN  SetProc(r.proc) /\ response' = r.ret
  /\ op' = "get_mesh_info"
  /\ UNCHANGED <<stlFile, answers, codecVars, indexVars, concVars, jobVars>>

ClipByBoundsCall ==
  /\ loadCalls < MaxCalls
  /\ \E b \in RawBoxes :
       LET r == ClipByBounds(Proc, stlFile, b[1], b[2], b[3], b[4], b[5], b[6])
       IN  /\ SetProc(r.proc) /\ response' = [mesh |-> r.ret]
           /\ answers' = answers \cup
                Remember(Answer("clip_by_bounds", Cause(r), ClipOutcome(r.ret)))
  /\ op' = "clip_by_bounds"
  /\ UNCHANGED <<stlFile, codecVars, indexVars, concVars, jobVars>>

ClipByPercentageCall ==
  /\ loadCalls < MaxCalls
  /\ \E x \in Ranges, y \in Ranges :
       LET r == ClipByPercentage(Proc, stlFile, x[1], x[2], y[1], y[2])
       IN  /\ SetProc(r.proc) /\ response' = [mesh |-> r.ret]
           /\ answers' = answers \cup
                Remember(Answer("clip_by_percentage", Cause(r),
                                ClipOutcome(r.ret)))
  /\ op' = "clip_by_percentage"
  /\ UNCHANGED <<stlFile, codecVars, indexVars, concVars, jobVars>>

DownloadClippedStlCall ==
  /\ loadCalls < MaxCalls
  /\ \E x \in Ranges, y \in Ranges :
       LET c == ClipByPercentage(Proc, stlFile, x[1], x[2], y[1], y[2])
           r == DownloadClippedStl(Proc, stlFile, x[1], x[2], y[1], y[2])
       IN  /\ SetProc(r.proc) /\ response' = r.ret
           /\ answers' = answers \cup
                Remember(Answer("download_clipped_stl", Cause(c),
                                HttpOutcome(r.ret)))
  /\ op' = "download_clipped_stl"
  /\ UNCHANGED <<stlFile, codecVars, indexVars, concVars, jobVars>>

GetMeshPreviewCall ==
  /\ loadCalls < MaxCalls
  /\ \E x \in Ranges, y \in Ranges, k \in 1..MaxK :
       LET r == GetMeshPreview(Proc, stlFile, x[1], x[2], y[1], y[2], k)
       IN  SetProc(r.proc) /\ response' = r.ret
  /\ op' = "get_mesh_preview"
  /\ UNCHANGED <<stlFile, answers, codecVars, indexVars, concVars, jobVars>>

NextProc ==
  \/ InstallStlFile
  \/ GetMeshBoundsCall \/ GetMeshInfoCall
  \/ ClipByBoundsCall \/ ClipByPercentageCall
  \/ DownloadClippedStlCall \/ GetMeshPreviewCall

SpecProc == InitProc /\ [][NextProc]_vars

(***************************************************************************)
(* The clips of a processor, with the arguments of each call kept:         *)
(* clipArgs is Some(<<a, b, c, d, min_z, max_z>>), a..d the four numbers    *)
(* given and min_z, max_z optional                                         *)
(***************************************************************************)
InitClip ==
  /\ op = "none"
  /\ stlFile \in {NoFile} \cup MeshFiles
  /\ mesh = None /\ bounds = None /\ loadCalls = 0
  /\ response = None /\ answers = {}
  /\ JobIdle
  /\ CodecIdle /\ IndexIdle /\ ConcIdle

ClipByBoundsStep ==
  /\ loadCalls < MaxCalls
  /\ \E b \in RawBoxes :
       LET r == ClipByBounds(Proc, stlFile, b[1], b[2], b[3], b[4], b[5], b[6])
       IN  /\ SetProc(r.proc) /\ response' = [mesh |-> r.ret]
           /\ clipArgs' = Some(b)
  /\ op' = "clip_by_bounds"
  /\ UNCHANGED <<exportVars, stlFile, answers, job, geoVars, codecVars, indexVars,
                 concVars>>

ClipByPercentageStep ==
  /\ loadCalls < MaxCalls
  /\ \E x \in Ranges, y \in Ranges :
       LET r == ClipByPercentage(Proc, stlFile, x[1], x[2], y[1], y[2])
       IN  /\ SetProc(r.proc) /\ response' = [mesh |-> r.ret]
           /\ clipArgs' = Some(<<x[1], x[2], y[1], y[2], None, None>>)
  /\ op' = "clip_by_percentage"
  /\ UNCHANGED <<exportVars, stlFile, answers, job, geoVars, codecVars, indexVars,
                 concVars>>

\* the corners tried, <<y of lat_min, y of lat_max, x of lng_min, x of
\* lng_max>>: in order, with the latitudes reversed, with the longitudes
\* reversed, with both reversed, a corner box and a zero-area box
GeoBoxes ==
  {<<0, 12, 0, 12>>, <<12, 0, 0, 12>>, <<0, 12, 12, 0>>, <<12, 0, 12, 0>>,
   <<0, 6, 0, 6>>, <<6, 6, 6, 6>>}

ClipByGeoBoundsStep ==
  /\ loadCalls < MaxCalls
  /\ \E g \in GeoBoxes :
       LET r == ClipByGeoBounds(Proc, stlFile, LatAt(g[1]), LatAt(g[2]),
                                LngAt(g[3]), LngAt(g[4]))
       IN  /\ SetProc(r.proc) /\ response' = [mesh |-> r.ret]
           /\ clipArgs' = Some(<<g[1], g[2], g[3], g[4], None, None>>)
  /\ op' = "clip_by_geo_bounds"
  /\ UNCHANGED <<exportVars, stlFile, answers, job, geoVars, codecVars, indexVars,
                 concVars>>

NextClip ==
  \/ ClipByBoundsStep \/ ClipByPercentageStep \/ ClipByGeoBoundsStep

SpecClip == InitClip /\ [][NextClip]_vars

(***************************************************************************)
(* clip_by_percentage on any mesh file, the wall meshes among them         *)
(***************************************************************************)
\* a lone wall, and a floor with the wall at its far end
WallFiles == {File(Vectors(<<TW>>)), File(Vectors(<<TF, TW>>))}

InitPercent ==
  /\ op = "none"
  /\ stlFile \in {NoFile} \cup MeshFiles \cup WallFiles
  /\ mesh = None /\ bounds = None /\ loadCalls = 0
  /\ response = None /\ answers = {}
  /\ JobIdle
  /\ CodecIdle /\ IndexIdle /\ ConcIdle

NextPercent == InstallStlFile \/ ClipByPercentageStep

SpecPercent == InitPercent /\ [][NextPercent]_vars

(***************************************************************************)
(* Selections on the shared processor: clip_by_district around a centre,   *)
(* and get_mesh_preview of a percentage selection.  clipArgs keeps the     *)
(* arguments: <<y, x, radius_meters, 0, None, None>> for a district, the   *)
(* centre being (LatAt(y), LngAt(x)), and the four fractions for a preview.*)
(***************************************************************************)
\* the centres tried, <<y, x>>: the middle of the meshes and a point far out
Centres == {<<6, 6>>, <<40, 40>>}

\* the radii tried, in metres; 4 m is 2.66 units of the mesh and 8 m is 5.32
ClipRadii == {-4, 0, 4, 8}

ClipByDistrictStep ==
  /\ loadCalls < MaxCalls
  /\ \E c \in Centres, radius_meters \in ClipRadii :
       LET r == ClipByDistrict(Proc, stlFile, LatAt(c[1]), LngAt(c[2]),
                               radius_meters)
       IN  /\ SetProc(r.proc) /\ response' = [mesh |-> r.ret]
           /\ clipArgs' = Some(<<c[1], c[2], radius_meters, 0, None, None>>)
  /\ op' = "clip_by_district"
  /\ UNCHANGED <<exportVars, stlFile, answers, job, geoVars, codecVars, indexVars,
                 concVars>>

GetMeshPreviewStep ==
  /\ loadCalls < MaxCalls
  /\ \E x \in Ranges, y \in Ranges, k \in 1..MaxK :
       LET r == GetMeshPreview(Proc, stlFile, x[1], x[2], y[1], y[2], k)
       IN  /\ SetProc(r.proc) /\ response' = r.ret
           /\ clipArgs' = Some(<<x[1], x[2], y[1], y[2], None, None>>)
           /\ max_triangles' = k
  /\ op' = "get_mesh_preview"
  /\ UNCHANGED <<exportVars, stlFile, answers, job, geoVars, triangles, stl_bytes,
                 preview, readVars, indexVars, concVars>>

NextRadius == InstallStlFile \/ ClipByDistrictStep

SpecRadius == InitClip /\ [][NextRadius]_vars

NextSelect == InstallStlFile \/ GetMeshPreviewStep

SpecSelect == InitClip /\ [][NextSelect]_vars

(***************************************************************************)
(* Export jobs on the shared processor, one job at a time                  *)
(***************************************************************************)
StartExportStep ==
  /\ job.status # "Processing"
  /\ \E id \in DistrictIds : job' = Val(StartExport(id))
  /\ op' = "start_export"
  /\ UNCHANGED <<exportVars, clipArgs, geoVars, procVars, codecVars, indexVars, concVars>>

ProcessExportJobStep ==
  /\ loadCalls < MaxCalls
  /\ job.status = "Processing"
  /\ LET r == ProcessExportJob(Proc, stlFile, job)
     IN  SetProc(r.proc) /\ job' = r.job
  /\ op' = "process_export_job"
  /\ UNCHANGED <<exportVars, stlFile, response, answers, clipArgs, geoVars, codecVars,
                 indexVars, concVars>>

NextJob == InstallStlFile \/ StartExportStep \/ ProcessExportJobStep

SpecJob == InitClip /\ [][NextJob]_vars

(***************************************************************************)
(* Export jobs with their background tasks: start_export creates a job and *)
(* schedules its task; the tasks of several jobs take turns at their       *)
(* sleeps.  tasks[j] is "start" (scheduled), "sleep1", "sleep2", "sleep3"  *)
(* (in the sleep before the pass that sets 25, 50, 75) or "done".          *)
(***************************************************************************)
JobIds == 1..MaxJobs

SetJob(j, new, label) ==
  /\ export_jobs' = [export_jobs EXCEPT ![j] = new]
  /\ tasks' = [tasks EXCEPT ![j] = label]

StartExportCall ==
  /\ Len(export_jobs) < MaxJobs
  /\ \E id \in RequestedIds :
       IF DistrictOf(id) = None
         THEN response' = DistrictNotFound /\ UNCHANGED exportVars
         ELSE /\ export_jobs' =
                   Append(export_jobs,
                          ExportJobStatus(Len(export_jobs) + 1, id))
              /\ tasks' = Append(tasks, "start")
              /\ response' =
                   [status |-> 200,
                    body |-> ExportJobStatus(Len(export_jobs) + 1, id)]
  /\ op' = "start_export"
  /\ UNCHANGED <<stlFile, mesh, bounds, loadCalls, answers, clipArgs, job,
                 geoVars, codecVars, indexVars, concVars>>

\* TaskBegin whose failures return without a word
TaskBeginSilent(j) ==
  /\ j \in DOMAIN tasks /\ tasks[j] = "start"
  /\ IF DistrictOf(export_jobs[j].district_id) = None
       THEN /\ SetJob(j, LeftProcessing(export_jobs[j]), "done")
            /\ UNCHANGED <<mesh, bounds, loadCalls>>
       ELSE /\ SetProc(LoadMesh(Proc, stlFile))
            /\ IF LoadMesh(Proc, stlFile).ok
                 THEN SetJob(j, export_jobs[j], "sleep1")
                 ELSE SetJob(j, LeftProcessing(export_jobs[j]), "done")
  /\ op' = "process_export_job"
  /\ UNCHANGED <<stlFile, response, answers, clipArgs, job, geoVars,
                 codecVars, indexVars, concVars>>

\* lines 461-477: from the start of the task to its first sleep
TaskBegin(j) ==
  /\ j \in DOMAIN tasks /\ tasks[j] = "start"
  /\ IF DistrictOf(export_jobs[j].district_id) = None
       THEN /\ SetJob(j, Failed(export_jobs[j]), "done")
            /\ UNCHANGED <<mesh, bounds, loadCalls>>
       ELSE /\ SetProc(LoadMesh(Proc, stlFile))
            /\ IF LoadMesh(Proc, stlFile).ok
                 THEN SetJob(j, export_jobs[j], "sleep1")
                 ELSE SetJob(j, Failed(export_jobs[j]), "done")
  /\ op' = "process_export_job"
  /\ UNCHANGED <<stlFile, response, answers, clipArgs, job, geoVars,
                 codecVars, indexVars, concVars>>

\* lines 478-480: the passes that set 25 and 50, each up to the next sleep
TaskProgress(j) ==
  /\ j \in DOMAIN tasks /\ tasks[j] \in {"sleep1", "sleep2"}
  /\ IF tasks[j] = "sleep1"
       THEN SetJob(j, Progressed(export_jobs[j], 25), "sleep2")
       ELSE SetJob(j, Progressed(export_jobs[j], 50), "sleep3")
  /\ op' = "process_export_job"
  /\ UNCHANGED <<procVars, clipArgs, job, geoVars, codecVars, indexVars,
                 concVars>>

\* lines 483-487: what clip_by_district returns for a loaded mesh m around
\* district id, at the radius of the district and at twice that radius
DistrictClip(m, id, times) ==
  ClipByDistrict([mesh |-> Some(m), bounds |-> Some(CalculateBounds(m)),
                  loads |-> 0],
                 NoFile,
                 LatAt(Val(DistrictOf(id)).y), LngAt(Val(DistrictOf(id)).x),
                 DISTRICT_RADIUS(id) * times).ret

\* what the task of a district ends with, for every mesh tried and every
\* district, worked out once
DistrictExports ==
  [m \in {Content(f) : f \in MeshFiles}, id \in DistrictIds |->
     Exported(ClippedTwice(DistrictClip(m, id, 1), DistrictClip(m, id, 2)))]

\* lines 479-501: the pass that sets 75, the clips and the end of the task;
\* the mesh is loaded, the clips leave the processor as it is
TaskFinish(j) ==
  /\ j \in DOMAIN tasks /\ tasks[j] = "sleep3"
  /\ SetJob(j,
            LastPass(export_jobs[j],
                     DistrictExports[Val(mesh), export_jobs[j].district_id]),
            "done")
  /\ op' = "process_export_job"
  /\ UNCHANGED <<procVars, clipArgs, job, geoVars, codecVars, indexVars,
                 concVars>>

\* the steps of the task of job j
Task(j) == TaskBegin(j) \/ TaskProgress(j) \/ TaskFinish(j)

NextExport ==
  \/ InstallStlFile
  \/ StartExportCall
  \/ \E j \in JobIds : TaskBegin(j)
  \/ \E j \in JobIds : TaskProgress(j)
  \/ \E j \in JobIds : TaskFinish(j)

SpecExport == InitClip /\ [][NextExport]_vars

\* the event loop runs every task it was given: a task that can take a
\* step takes it
SpecExportFair ==
  InitClip /\ [][NextExport]_vars /\ \A j \in JobIds : WF_vars(Task(j))

(***************************************************************************)
(* The two coordinate transforms applied one after the other, on the mesh  *)
(* the diagnostic script loads                                             *)
(***************************************************************************)
InitGeo ==
  /\ op = "none"
  /\ stlFile \in MeshFiles
  /\ mesh = None /\ bounds = None /\ loadCalls = 0
  /\ response = None /\ answers = {}
  /\ JobIdle
  /\ CodecIdle /\ IndexIdle /\ ConcIdle

\* (lat, lng) tried, in thousandths of a degree: the corners and the inside
\* of the box of analyze_stl.py
GeoPoints == {1156, 1300, 1472} \X {103605, 103800, 104044}

\* local (x, y) tried
LocalPoints == {0, 6, 12} \X {0, 6, 12}

\* stl_to_wgs84(*wgs84_to_local(lat, lng))
ToGeoOfToLocal ==
  /\ \E g \in GeoPoints :
       LET xy == Wgs84ToLocal(Thousandths(g[1]), Thousandths(g[2]))
       IN  /\ point' = Some(g)
           /\ image' = StlToWgs84(CentroidExtent(Content(stlFile)),
                                  xy[1], xy[2])
  /\ op' = "stl_to_wgs84"
  /\ UNCHANGED <<exportVars, clipArgs, job, procVars, codecVars, indexVars, concVars>>

\* wgs84_to_local(*stl_to_wgs84(x, y))
ToLocalOfToGeo ==
  /\ \E l \in LocalPoints :
       LET geo == StlToWgs84(CentroidExtent(Content(stlFile)),
                             RatOf(l[1]), RatOf(l[2]))
       IN  /\ point' = Some(l)
           /\ image' = IF geo = None THEN None
                       ELSE Some(Wgs84ToLocal(Val(geo)[1], Val(geo)[2]))
  /\ op' = "wgs84_to_local"
  /\ UNCHANGED <<exportVars, clipArgs, job, procVars, codecVars, indexVars, concVars>>

NextGeo == ToGeoOfToLocal \/ ToLocalOfToGeo

SpecGeo == InitGeo /\ [][NextGeo]_vars

(***************************************************************************)
(* Concurrent first use.  Each request runs ensure_indexed or the          *)
(* "if self._mesh is None: load_mesh()" of get_bounds on the shared        *)
(* objects; neither holds a lock, so the steps of two requests interleave. *)
(* A step is one test, one assignment to a shared field, or one pass of    *)
(* the loop over the rows.  The catalog, the mesh directory and the mesh   *)
(* file are present: a sequential run initializes each object once.        *)
(***************************************************************************)
InitConc ==
  /\ op = "none"
  /\ csvExists = TRUE /\ dirExists = TRUE
  /\ csvRows \in SeqsUpTo(RowUniverse, MaxRows)
  /\ stlFiles \in [WayCodes -> {NoFile, FragmentFile}]
  /\ buildings = <<>> /\ indexed = FALSE
  /\ ensureCalls = 0 /\ buildCalls = 0 /\ buildRet = None
  /\ found = None /\ stats = None /\ query = None
  /\ stlFile \in {File(Vectors(<<TA>>)), File(Vectors(<<TA, TB>>))}
  /\ mesh = None /\ bounds = None /\ loadCalls = 0
  /\ response = None /\ answers = {}
  /\ JobIdle
  /\ pc = [r \in Requests |-> "idle"]
  /\ cursor = [r \in Requests |-> 0]
  /\ CodecIdle

Goto(r, label) == pc' = [pc EXCEPT ![r] = label]

idleIndex == <<buildings, indexed, buildRet, found, stats, query, filesVars>>
idleProc  == <<stlFile, mesh, bounds, loadCalls, response, answers>>

\* ensure_indexed: if not self._indexed: self.build_index()
CheckIndexed(r) ==
  /\ pc[r] = "idle"
  /\ ensureCalls' = ensureCalls + 1
  /\ IF ~indexed
       THEN buildCalls' = buildCalls + 1 /\ Goto(r, "build_index")
       ELSE UNCHANGED buildCalls /\ Goto(r, "done")
  /\ UNCHANGED <<op, cursor, idleIndex, idleProc, codecVars, jobVars>>

\* build_index up to self.buildings = []
BuildStart(r) ==
  /\ pc[r] = "build_index"
  /\ IF ~csvExists \/ ~dirExists
       THEN /\ buildRet' = Some(0) /\ Goto(r, "done")
            /\ UNCHANGED <<buildings, cursor>>
       ELSE /\ buildings' = <<>>
            /\ cursor' = [cursor EXCEPT ![r] = 1]
            /\ Goto(r, "rows")
            /\ UNCHANGED buildRet
  /\ UNCHANGED <<op, indexed, ensureCalls, buildCalls, found, stats, query,
                 filesVars, idleProc, codecVars, jobVars>>

\* one pass of the loop over the rows
BuildRow(r) ==
  /\ pc[r] = "rows"
  /\ cursor[r] <= Len(csvRows)
  /\ buildings' = IndexRow(buildings, csvRows[cursor[r]], stlFiles)
  /\ cursor' = [cursor EXCEPT ![r] = cursor[r] + 1]
  /\ UNCHANGED <<op, pc, indexed, ensureCalls, buildCalls, buildRet, found,
                 stats, query, filesVars, idleProc, codecVars, jobVars>>

\* self._indexed = True; return len(self.buildings)
BuildFinish(r) ==
  /\ pc[r] = "rows"
  /\ cursor[r] > Len(csvRows)
  /\ indexed' = TRUE
  /\ buildRet' = Some(Len(buildings))
  /\ Goto(r, "done")
  /\ UNCHANGED <<op, cursor, buildings, ensureCalls, buildCalls, found,
                 stats, query, filesVars, idleProc, codecVars, jobVars>>

\* get_bounds: if self._mesh is None: self.load_mesh()
CheckMesh(r) ==
  /\ pc[r] = "idle"
  /\ IF mesh = None THEN Goto(r, "load_mesh") ELSE Goto(r, "done")
  /\ UNCHANGED <<op, cursor, ensureCalls, buildCalls, idleIndex, idleProc,
                 codecVars, jobVars>>

\* load_mesh up to self._mesh = mesh.Mesh.from_file(...)
LoadRead(r) ==
  /\ pc[r] = "load_mesh"
  /\ IF stlFile = NoFile
       THEN Goto(r, "done") /\ UNCHANGED <<mesh, loadCalls>>
       ELSE /\ mesh' = Some(Content(stlFile))
            /\ loadCalls' = loadCalls + 1
            /\ Goto(r, "calculate_bounds")
  /\ UNCHANGED <<op, cursor, ensureCalls, buildCalls, idleIndex, stlFile,
                 bounds, response, answers, codecVars, jobVars>>

\* self._calculate_bounds(); return True
CalcBounds(r) ==
  /\ pc[r] = "calculate_bounds"
  /\ bounds' = IF mesh = None THEN bounds
               ELSE Some(CalculateBounds(Val(mesh)))
  /\ Goto(r, "done")
  /\ UNCHANGED <<op, cursor, ensureCalls, buildCalls, idleIndex, stlFile,
                 mesh, loadCalls, response, answers, codecVars, jobVars>>

NextConc ==
  \E r \in Requests :
    \/ CheckIndexed(r) \/ BuildStart(r) \/ BuildRow(r) \/ BuildFinish(r)
    \/ CheckMesh(r) \/ LoadRead(r) \/ CalcBounds(r)

SpecConc == InitConc /\ [][NextConc]_vars

(***************************************************************************)
(* The claims                                                              *)
(***************************************************************************)
Encoders == {"_write_binary_stl", "mesh_to_binary_stl"}

\* the 4-byte little-endian count that follows an 80-byte header
CountField(b) == b[81] + 256 * b[82] + 65536 * b[83] + 16777216 * b[84]

\* C1: each binary encoder returns 84 + 50*n bytes for n triangles, an
\* 80-byte header, then the count n, then n records of 50 bytes.
C1_EncodedSize ==
  op \in Encoders =>
    /\ Len(stl_bytes) = 84 + 50 * Len(triangles)
    /\ CountField(stl_bytes) = Len(triangles)

\* C2: preview decimation keeps at most max_triangles triangles, and
\* triangleCount is the number kept.
C2_DecimationBound ==
  op = "mesh_to_json" =>
    /\ preview.triangleCount <= max_triangles
    /\ preview.triangleCount = Len(preview.tris)

\* C3: under concurrent first use, build_index runs at most once through
\* ensure_indexed and load_mesh reads the mesh file at most once through
\* the test of self._mesh.
C3_InitializedAtMostOnce == buildCalls <= 1 /\ loadCalls <= 1

\* C4: for one operation, the outcome when the mesh file could not be
\* loaded is never the outcome when the mesh is loaded and the selection
\* holds no triangle.
C4_NeverConflated ==
  \A a \in answers, b \in answers :
    (a.op = b.op /\ a.cause = "missing" /\ b.cause = "empty")
      => a.outcome # b.outcome

\* C5: once ensure_indexed has been called, build_index has run exactly
\* once and the index is Indexed, whatever the build found.
C5_BuildsExactlyOnce ==
  ensureCalls >= 1 => (buildCalls = 1 /\ indexed)

\* C6: the mesh file is read at most once in the life of the process.
C6_LoadedOnce == loadCalls <= 1

\* the test of find_buildings_in_bounds on one record, for the last query
InQueryBox(b) ==
  /\ query.lat_min <= b.lat /\ b.lat <= query.lat_max
  /\ query.lon_min <= b.lon /\ b.lon <= query.lon_max

\* C7: find_buildings_in_bounds returns exactly the records of the catalog
\* inside the bounds, both ends inclusive, each once and in catalog order.
C7_FindInBoundsExact ==
  op = "find_buildings_in_bounds" => found = SelectSeq(buildings, InQueryBox)

\* a query that keeps some records and drops others, one of those kept
\* lying on the upper latitude limit
C7_Witness ==
  /\ op = "find_buildings_in_bounds"
  /\ Len(found) >= 1 /\ Len(found) < Len(buildings)
  /\ \E i \in DOMAIN found : found[i].lat = query.lat_max

\* the test of find_buildings_in_radius on one record, for the last query
InQueryRadius(b) ==
  HaversineDistance(query.center_lat, query.center_lon, b.lat, b.lon)
    <= query.radius_meters

\* C8: find_buildings_in_radius returns exactly the records of the catalog
\* whose haversine distance from the center is at most the radius, each
\* once and in catalog order.
C8_FindInRadiusExact ==
  op = "find_buildings_in_radius" => found = SelectSeq(buildings, InQueryRadius)

\* a query that keeps some records and drops others, one of those kept
\* lying at a distance that equals a positive radius
C8_Witness ==
  /\ op = "find_buildings_in_radius"
  /\ Len(found) >= 1 /\ Len(found) < Len(buildings)
  /\ query.radius_meters > 0
  /\ \E i \in DOMAIN found :
       HaversineDistance(query.center_lat, query.center_lon,
                         found[i].lat, found[i].lon) = query.radius_meters

\* the row's mesh file <way_code>.stl exists in the mesh directory
RowHasMesh(row) == stlFiles[row.way_code] # NoFile

\* C9: after build_index on a present catalog and mesh directory, the index
\* holds one record for each row whose mesh file exists, in row order, none
\* for the other rows, and the count returned is the number of records.
C9_IndexHoldsRowsWithMesh ==
  indexed =>
    LET rows == SelectSeq(csvRows, RowHasMesh)
    IN  /\ csvExists /\ dirExists
        /\ buildings = [i \in 1..Len(rows) |-> Building(rows[i])]
        /\ buildRet = Some(Len(buildings))

\* a build that kept some rows and dropped others
C9_Witness ==
  /\ indexed
  /\ Len(buildings) >= 1 /\ Len(buildings) < Len(csvRows)

\* C10: no two records of BuildingIndex.buildings have the same way_code.
C10_UniqueWayCodes ==
  \A i \in DOMAIN buildings, j \in DOMAIN buildings :
    i # j => buildings[i].way_code # buildings[j].way_code

\* C11: when the catalog file or the mesh directory is absent, build_index
\* returns (it does not raise) and what it returns is 0.
C11_AbsentSourceGivesZero ==
  (buildCalls >= 1 /\ (~csvExists \/ ~dirExists)) => buildRet = Some(0)

\* a build on a catalog with rows and no mesh directory
C11_Witness ==
  /\ buildCalls >= 1 /\ csvExists /\ ~dirExists /\ Len(csvRows) >= 1
  /\ buildRet = Some(0)

\* the read of the file of the i-th building of the selection
Fragment(i) == ReadFile(stlFiles, selection[i].file_path)

TrianglesOf(b) == IF b = <<>> THEN <<>> ELSE ReadBinaryStl(b).tris

\* C13: a record whose file is gone or whose decoding raises is skipped;
\* the result holds the triangles of the other records, in input order.
C13_UnreadableSkipped ==
  (op = "merge_buildings_to_stl"
     /\ \E i \in DOMAIN selection : Fragment(i).raised)
  => TrianglesOf(merged) =
       Flatten([i \in DOMAIN selection |->
                  IF Fragment(i).raised THEN <<>> ELSE Fragment(i).tris])

\* a merge whose first record cannot be read and whose second has triangles
C13_Witness ==
  /\ op = "merge_buildings_to_stl"
  /\ Len(selection) = 2
  /\ Fragment(1).raised
  /\ ~Fragment(2).raised /\ Fragment(2).tris # <<>>
  /\ merged # <<>>

\* the records wholly present in a stream of n bytes
CompleteRecords(n) == IF n < 84 THEN 0 ELSE (n - 84) \div 50

\* C14: on a binary stream of any length, _read_stl_triangles returns the
\* triangles whose records are wholly present, in order, and does not raise.
C14_TruncatedGivesPartial ==
  (op = "_read_stl_triangles" /\ blocks = <<>>)
  => decoded =
       Returned(SubSeq(written, 1,
                       Min2(Len(written), CompleteRecords(Len(stream)))))

\* C15: on a text, _read_stl_triangles returns the triangles of the well
\* formed blocks, in file order, and does not raise.
C15_MalformedBlocksSkipped ==
  (op = "_read_stl_triangles" /\ blocks # <<>>)
  => decoded =
       Returned(Flatten([i \in DOMAIN blocks |->
                  IF blocks[i].kind \in WellFormed THEN <<blocks[i].tri>>
                  ELSE <<>>]))

\* C16: decoding what _write_binary_stl wrote gives back the triangle
\* count and, position by position, the normal and the three vertices.
C16_RoundTrip ==
  (op = "_read_stl_triangles" /\ blocks = <<>>
     /\ stream = WriteBinaryStl(written))
  => /\ ~decoded.raised
     /\ Len(decoded.tris) = Len(written)
     /\ \A i \in DOMAIN written :
          /\ decoded.tris[i][1] = written[i][1]
          /\ decoded.tris[i][2] = written[i][2]

\* a round trip of two different triangles
C16_Witness ==
  /\ op = "_read_stl_triangles" /\ blocks = <<>>
  /\ stream = WriteBinaryStl(written)
  /\ Len(written) = 2 /\ written[1] # written[2]

\* C17: for every loaded mesh and bounds, the triangles clip_by_bounds
\* returns are exactly the mesh's triangles, in their order, whose centroid
\* (the mean of the three vertices) has min_x <= cx <= max_x and
\* min_y <= cy <= max_y, and min_z <= cz <= max_z when both min_z and max_z
\* were given and only then
ClippedTriangles == IF response.mesh = None THEN <<>> ELSE Val(response.mesh)

CoordSum(v, axis) == v[1][axis] + v[2][axis] + v[3][axis]

CentroidInside(v, a) ==
  /\ 3 * a[1] <= CoordSum(v, 1) /\ CoordSum(v, 1) <= 3 * a[2]
  /\ 3 * a[3] <= CoordSum(v, 2) /\ CoordSum(v, 2) <= 3 * a[4]
  /\ IF a[5] = None \/ a[6] = None THEN TRUE
     ELSE 3 * Val(a[5]) <= CoordSum(v, 3) /\ CoordSum(v, 3) <= 3 * Val(a[6])

InsideOf(m, a) == SelectSeq(m, LAMBDA v : CentroidInside(v, a))

C17_WitnessLoneZ ==
  /\ op = "clip_by_bounds" /\ mesh # None
  /\ Val(clipArgs)[5] # None /\ Val(clipArgs)[6] = None
  /\ Len(Val(mesh)) = 2 /\ Len(ClippedTriangles) = 2

ClipOps == {"clip_by_bounds", "clip_by_percentage", "clip_by_geo_bounds"}

Swapped(a) ==
  <<Min2(a[1], a[2]), Max2(a[1], a[2]), Min2(a[3], a[4]), Max2(a[3], a[4]),
    IF a[5] # None /\ a[6] # None
      THEN Some(Min2(Val(a[5]), Val(a[6]))) ELSE a[5],
    IF a[5] # None /\ a[6] # None
      THEN Some(Max2(Val(a[5]), Val(a[6]))) ELSE a[6]>>

Inverted(a) == Swapped(a) # a

\* what the operation just made returns for the arguments a
SameClip(a) ==
  CASE op = "clip_by_bounds" ->
         ClipByBounds(Proc, stlFile, a[1], a[2], a[3], a[4], a[5], a[6]).ret
    [] op = "clip_by_percentage" ->
         ClipByPercentage(Proc, stlFile, a[1], a[2], a[3], a[4]).ret
    [] op = "clip_by_geo_bounds" ->
         ClipByGeoBounds(Proc, stlFile, LatAt(a[1]), LatAt(a[2]),
                         LngAt(a[3]), LngAt(a[4])).ret

C18_InvertedBoxNormalized ==
  (op \in ClipOps /\ mesh # None /\ Inverted(Val(clipArgs))) =>
    response.mesh = SameClip(Swapped(Val(clipArgs)))

\* the part of C18 that is about clip_by_geo_bounds
C18_GeoCornersNormalized ==
  (op = "clip_by_geo_bounds" /\ mesh # None /\ Inverted(Val(clipArgs))) =>
    response.mesh = SameClip(Swapped(Val(clipArgs)))

C18_GeoWitness ==
  /\ op = "clip_by_geo_bounds" /\ mesh # None /\ Inverted(Val(clipArgs))
  /\ response.mesh # None /\ Len(Val(response.mesh)) = 2

\* C19: process_export_job clips at the district's radius first; it clips
\* a second time, at twice the radius, if and only if the first clip gave
\* no triangle; it never clips a third time; the job ends Ready if and only
\* if the last clip made gave at least one triangle, and Error otherwise
DistrictCount(id, radius) ==
  LET d == Val(DistrictOf(id))
      r == ClipByDistrict(Proc, stlFile, LatAt(d.y), LngAt(d.x), radius)
  IN  IF r.ret = None THEN 0 ELSE Len(Val(r.ret))

C19_RetryPolicy ==
  (op = "process_export_job") =>
    LET a == job.attempts
        radius == DISTRICT_RADIUS(job.district)
    IN  IF mesh = None THEN a = <<>> /\ job.status = "Error"
        ELSE /\ Len(a) \in {1, 2}
             /\ a[1] = [radius |-> radius,
                        count |-> DistrictCount(job.district, radius)]
             /\ (Len(a) = 2) <=> (a[1].count = 0)
             /\ (Len(a) = 2) =>
                  a[2] = [radius |-> 2 * radius,
                          count |-> DistrictCount(job.district, 2 * radius)]
             /\ job.status \in {"Ready", "Error"}
             /\ (job.status = "Ready") <=> (a[Len(a)].count >= 1)

\* a job whose first clip gave nothing and whose second gave triangles
C19_Witness ==
  /\ op = "process_export_job"
  /\ Len(job.attempts) = 2
  /\ job.attempts[1].count = 0 /\ job.attempts[2].count >= 1
  /\ job.status = "Ready"

\* a job whose two clips gave nothing
C19_WitnessError ==
  /\ op = "process_export_job"
  /\ Len(job.attempts) = 2 /\ job.attempts[2].count = 0
  /\ job.status = "Error"

\* C20: stl_to_wgs84 of analyze_stl.py is the exact inverse of
\* wgs84_to_local: stl_to_wgs84(wgs84_to_local(lat, lng)) = (lat, lng) for
\* every (lat, lng) and wgs84_to_local(stl_to_wgs84(x, y)) = (x, y) for
\* every (x, y), over exact arithmetic
C20_ExactInverse ==
  (op \in {"stl_to_wgs84", "wgs84_to_local"} /\ image # None) =>
    LET given == IF op = "stl_to_wgs84"
                 THEN <<Thousandths(Val(point)[1]), Thousandths(Val(point)[2])>>
                 ELSE <<RatOf(Val(point)[1]), RatOf(Val(point)[2])>>
    IN  RatEq(Val(image)[1], given[1]) /\ RatEq(Val(image)[2], given[2])

\* no point of either plane comes back as itself on both axes
C20_NeverInverse ==
  (op \in {"stl_to_wgs84", "wgs84_to_local"} /\ image # None) =>
    LET given == IF op = "stl_to_wgs84"
                 THEN <<Thousandths(Val(point)[1]), Thousandths(Val(point)[2])>>
                 ELSE <<RatOf(Val(point)[1]), RatOf(Val(point)[2])>>
    IN  ~(RatEq(Val(image)[1], given[1]) /\ RatEq(Val(image)[2], given[2]))

DistrictOps ==
  {"get_district_stats", "download_district_stl", "get_district_mesh_preview"}

\* the record b lies in the box calculate_bounds makes of the centre of the
\* district asked for and its default radius: within radius / 111320
\* degrees of its latitude and radius / (111320 * cos(lat)) of its longitude
InDistrictBox(b) ==
  LET d == Val(DistrictOf(query.district))
      r == RatOf(DISTRICT_RADIUS(query.district))
  IN  /\ RatLeq(RatOf(Abs(b.lat - d.lat) * 111320), r)
      /\ RatLeq(RatMul(RatOf(Abs(b.lon - d.lng) * 111320), MathCos(d.lat)), r)

\* C21: for every catalog and district, at the district's default radius,
\* the count of get_district_stats, the list download_district_stl merges
\* and the buildingCount of get_district_mesh_preview are those of one
\* selection: find_buildings_in_bounds on calculate_bounds(lat, lng, radius).
C21_OneSelection ==
  (op \in DistrictOps /\ query.district \in DistrictIds /\ query.radius = None)
  => LET selected == SelectSeq(buildings, InDistrictBox)
     IN  CASE op = "get_district_stats" ->
                response.body.buildings = Len(selected)
           [] op = "download_district_stl" ->
                IF selected = <<>> THEN response.status = 404
                ELSE IF MergeBuildingsToStl(selected, stlFiles) = <<>>
                  THEN response.status = 500
                ELSE /\ response.status = 200
                     /\ response.content = MergeBuildingsToStl(selected, stlFiles)
           [] op = "get_district_mesh_preview" ->
                response.body.buildingCount = Len(selected)

\* a district whose selection keeps a record of the catalog and drops
\* another, counted by get_district_stats
C21_Witness ==
  /\ op = "get_district_stats" /\ query.district \in DistrictIds
  /\ response.body.buildings >= 1
  /\ response.body.buildings < Len(buildings)

\* the same selection merged by download_district_stl
C21_WitnessDownload ==
  /\ op = "download_district_stl" /\ query.district \in DistrictIds
  /\ response.status = 200 /\ Len(buildings) >= 2

\* the same selection previewed at the default radius
C21_WitnessPreview ==
  /\ op = "get_district_mesh_preview" /\ query.district \in DistrictIds
  /\ query.radius = None
  /\ response.body.buildingCount >= 1
  /\ response.body.buildingCount < Len(buildings)

PreviewOps == {"mesh_to_json", "get_buildings_preview_data"}

\* the triangles a preview function was given, before decimation
Undecimated ==
  IF op = "mesh_to_json" THEN Vectors(triangles)
  ELSE Flatten([i \in DOMAIN selection |->
                  IF Fragment(i).raised THEN <<>> ELSE Fragment(i).tris])

\* C22: preview decimation is uniform stride sampling: of n > k triangles
\* (k = max_triangles >= 1) the kept ones are exactly those at the indices
\* 0, s, 2s, ... below n, s = floor(n / k), in their order; n <= k keeps
\* all. The kept triangles are a function of the input alone.
C22_UniformStride ==
  op \in PreviewOps =>
    LET n == Len(Undecimated)
        s == n \div max_triangles
    IN  IF n > max_triangles
        THEN /\ Len(preview.tris) =
                  Cardinality({i \in 0..(n - 1) : i % s = 0})
             /\ \A j \in DOMAIN preview.tris :
                  preview.tris[j] = Undecimated[(j - 1) * s + 1]
        ELSE preview.tris = Undecimated

\* four triangles decimated to the two at the indices 0 and 2, the one at
\* index 1 being another triangle
C22_Witness ==
  /\ op \in PreviewOps
  /\ Len(Undecimated) = 4 /\ max_triangles = 2
  /\ preview.tris = <<Undecimated[1], Undecimated[3]>>
  /\ Undecimated[1] # Undecimated[2]

\* the normal and the c-th vertex of the t-th kept triangle
KeptNormal(t) ==
  IF op = "mesh_to_json" THEN FaceNormal(preview.tris[t])
  ELSE preview.tris[t][1]
KeptVertex(t, c) ==
  IF op = "mesh_to_json" THEN preview.tris[t][c] ELSE preview.tris[t][2][c]

\* the fraction x of the vertex buffer is the coordinate v, centered on ctr
\* and scaled by 0.8 / sc (left unscaled when the extent is zero and the
\* scale is reported as 1.0)
IsPreviewOf(x, v, ctr, sc) ==
  IF sc = <<1, 1>> THEN v * x[2] * ctr[2] = x[1] * ctr[2] + ctr[1] * x[2]
  ELSE v * x[2] * 4 * sc[2] * ctr[2]
         = x[1] * 5 * sc[1] * ctr[2] + ctr[1] * x[2] * 4 * sc[2]

\* C23: in every preview result, the empty ones too, the vertex buffer and
\* the normal buffer have the same length 9 * triangleCount, and the normal
\* at the positions of a vertex is the normal of that vertex's triangle.
C23_BuffersAligned ==
  op \in PreviewOps =>
    /\ Len(preview.vertices) = 9 * preview.triangleCount
    /\ Len(preview.normals) = 9 * preview.triangleCount
    /\ \A t \in 1..preview.triangleCount, c \in 1..3, axis \in 1..3 :
         LET j == 9 * (t - 1) + 3 * (c - 1) + axis
         IN  /\ preview.normals[j] = KeptNormal(t)[axis]
             /\ IsPreviewOf(preview.vertices[j], KeptVertex(t, c)[axis],
                            preview.center[axis], preview.scale)

\* a preview of two triangles or more whose first two normals differ
C23_Witness ==
  /\ op \in PreviewOps
  /\ preview.triangleCount >= 2
  /\ KeptNormal(1) # KeptNormal(2)

\* an empty preview of a selection whose files hold no triangle
C23_WitnessEmpty ==
  /\ op = "get_buildings_preview_data"
  /\ selection # <<>> /\ preview.triangleCount = 0
  /\ preview.vertices = <<>> /\ preview.normals = <<>>

\* C26: after every call of build_index, in any sequence of builds and
\* rebuilds while the catalog file and the mesh directory appear and
\* disappear, the count returned is the number of records the catalog holds.
C26_CountIsCatalogSize ==
  op = "build_index" => buildRet = Some(Len(buildings))

\* the box clip_by_percentage makes of the fractions a (in halves) and the
\* cached bounds b
PercentBox(b, a) ==
  <<b.min_x + ((b.max_x - b.min_x) * a[1]) \div 2,
    b.min_x + ((b.max_x - b.min_x) * a[2]) \div 2,
    b.min_y + ((b.max_y - b.min_y) * a[3]) \div 2,
    b.min_y + ((b.max_y - b.min_y) * a[4]) \div 2>>

\* the centroid np.mean computes lies in the box <<min_x, max_x, min_y, max_y>>
ComputedInside(v, box) ==
  /\ box[1] <= Centroid(v)[1] /\ Centroid(v)[1] <= box[2]
  /\ box[3] <= Centroid(v)[2] /\ Centroid(v)[2] <= box[4]

\* C28: for every loaded non-empty mesh, clip_by_percentage(0, 1, 0, 1)
\* returns all its triangles; the fractions map to the box
\* [min_x + w*x_start, min_x + w*x_end] x [min_y + h*y_start, min_y + h*y_end]
\* of the cached bounds, whose triangles are those returned.
C28_FullRangeKeepsAll ==
  (op = "clip_by_percentage" /\ mesh # None) =>
    /\ ClippedTriangles =
         SelectSeq(Val(mesh),
           LAMBDA v : ComputedInside(v, PercentBox(Val(bounds), Val(clipArgs))))
    /\ (Val(clipArgs) = <<0, 2, 0, 2, None, None>>)
         => ClippedTriangles = Val(mesh)

\* what clip_by_district returns from the state reached, for the centre of
\* the last call and the radius r
KeptAt(r) ==
  LET ret == ClipByDistrict(Proc, stlFile, LatAt(Val(clipArgs)[1]),
                            LngAt(Val(clipArgs)[2]), r).ret
  IN  IF ret = None THEN <<>> ELSE Val(ret)

\* the centroid of v lies in the square of half-side half around center
InSquare(v, center, half) ==
  /\ RatLeq(RatSub(center[1], half), RatOf(Centroid(v)[1]))
  /\ RatLeq(RatOf(Centroid(v)[1]), RatAdd(center[1], half))
  /\ RatLeq(RatSub(center[2], half), RatOf(Centroid(v)[2]))
  /\ RatLeq(RatOf(Centroid(v)[2]), RatAdd(center[2], half))

\* the triangles of m whose centroid lies in the square of the last call
SquareOf(m, center, half) == SelectSeq(m, LAMBDA v : InSquare(v, center, half))

\* C29: district clipping is monotone in the radius: what is kept at a
\* radius r1 <= r2 is kept at r2; the region is the axis-aligned square
\* centred on the local image of the centre, its half-side the radius
\* converted to mesh units.
C29_MonotoneInRadius ==
  (op = "clip_by_district" /\ mesh # None) =>
    /\ ClippedTriangles =
         SquareOf(Val(mesh),
                  Wgs84ToLocal(LatAt(Val(clipArgs)[1]), LngAt(Val(clipArgs)[2])),
                  RadiusStl(LatAt(Val(clipArgs)[1]), Val(clipArgs)[3]))
    /\ \A r1 \in ClipRadii :
         r1 <= Val(clipArgs)[3] =>
           /\ Len(KeptAt(r1)) <= Len(ClippedTriangles)
           /\ \A i \in DOMAIN KeptAt(r1) :
                \E j \in DOMAIN ClippedTriangles :
                  ClippedTriangles[j] = KeptAt(r1)[i]

\* a clip that keeps two triangles where a smaller positive radius keeps one
C29_Witness ==
  /\ op = "clip_by_district" /\ mesh # None
  /\ Len(ClippedTriangles) = 2
  /\ \E r1 \in ClipRadii :
       r1 > 0 /\ r1 < Val(clipArgs)[3] /\ Len(KeptAt(r1)) = 1

\* the triangles of the loaded mesh in the percentage selection of the last
\* get_mesh_preview
Selected ==
  SelectSeq(Val(mesh),
    LAMBDA v : ComputedInside(v, PercentBox(Val(bounds), Val(clipArgs))))

\* C30: get_mesh_preview returns the preview of the selected triangles and
\* of no other: when the mesh is loaded and the selection holds no
\* triangle, triangleCount is 0 and the buffers are empty.
C30_PreviewOfSelectionOnly ==
  (op = "get_mesh_preview" /\ mesh # None) =>
    IF Selected = <<>>
    THEN /\ response.triangleCount = 0
         /\ response.vertices = <<>> /\ response.normals = <<>>
    ELSE \A t \in DOMAIN response.tris :
           \E i \in DOMAIN Selected : Selected[i] = response.tris[t]

\* job j exists; it has reached Ready or Error
Created(j) == j \in DOMAIN export_jobs
Terminal(j) == Created(j) /\ export_jobs[j].status \in {"Ready", "Error"}

\* C24: every export job start_export creates reaches Ready or Error in the
\* end, its background task being run; once a job is Ready or Error no
\* later step changes any of its fields.
C24_JobsEnd ==
  /\ \A j \in JobIds : Created(j) ~> Terminal(j)
  /\ [][\A j \in JobIds : Terminal(j) => export_jobs'[j] = export_jobs[j]]_vars

\* two jobs have ended, one Ready after its clips and one Error
C24_Witness ==
  /\ Len(export_jobs) = 2
  /\ tasks = <<"done", "done">>
  /\ export_jobs[1].status = "Ready" /\ export_jobs[2].status = "Error"

\* C25: the progress of a job is one of 0, 25, 50, 75, 100 and never
\* decreases; a job that is Ready or Error has progress 100; a Ready job
\* has its file size and download URL set, a Processing job has neither.
C25_ProgressAndFields ==
  /\ [](\A j \in DOMAIN export_jobs :
          /\ export_jobs[j].progress \in {0, 25, 50, 75, 100}
          /\ export_jobs[j].status \in {"Ready", "Error"}
               => export_jobs[j].progress = 100
          /\ export_jobs[j].status = "Ready"
               => (export_jobs[j].file_size # None
                   /\ export_jobs[j].download_url # None)
          /\ export_jobs[j].status = "Processing"
               => (export_jobs[j].file_size = None
                   /\ export_jobs[j].download_url = None))
  /\ [][\A j \in DOMAIN export_jobs :
          export_jobs'[j].progress >= export_jobs[j].progress]_vars

\* every request has returned and at least one build_index ran to its end
AllBuildsFinished == indexed /\ \A r \in Requests : pc[r] = "done"

\* C27: when executions of build_index interleave (concurrent first use
\* through ensure_indexed), once all have finished the catalog holds each
\* row whose mesh file exists exactly once, in row order, as after one
\* sequential build.
C27_InterleavedBuildsAsSequential ==
  AllBuildsFinished =>
    LET rows == SelectSeq(csvRows, RowHasMesh)
    IN  buildings = [i \in 1..Len(rows) |-> Building(rows[i])]


=============================================================================
